---- MODULE Spec2Model ----
(***************************************************************************)
(* A model of hotfis: natural-language fuzzy rules (rules/fuzzyrule.py),   *)
(* rulesets (rules/fuzzyruleset.py) and the hierarchical network of fuzzy  *)
(* inference systems (network/fuzzynetwork.py).                            *)
(*                                                                         *)
(* Python dicts are modelled as sequences of records [k, v] in insertion   *)
(* order; Python objects live in an arena (a sequence) and are referred to *)
(* by their index; Python's None is the string "None" where a name is      *)
(* expected and the empty sequence where an object is expected.            *)
(***************************************************************************)
EXTENDS Integers, Sequences, FiniteSets, TLC

-----------------------------------------------------------------------------
(* Bounds of the model *)

\* largest number of node objects ever constructed in one network
MaxNodes == 3
\* largest number of entries of one mapping handed to insert
MaxMapLen == 2
\* largest number of antecedent clauses of a generated rule sentence
MaxClauses == 3

-----------------------------------------------------------------------------
(* Generic helpers *)

None == "None"

Range(s) == {s[i] : i \in 1..Len(s)}

RECURSIVE SetToSeq(_)
SetToSeq(S) ==
    IF S = {} THEN <<>>
    ELSE LET e == CHOOSE e \in S : TRUE IN <<e>> \o SetToSeq(S \ {e})

RECURSIVE SumSeq(_)
SumSeq(s) == IF s = <<>> THEN 0 ELSE Head(s) + SumSeq(Tail(s))

Min(a, b) == IF a <= b THEN a ELSE b
Max(a, b) == IF a >= b THEN a ELSE b

\* dict: keys in insertion order
DictKeys(d) == [i \in 1..Len(d) |-> d[i].k]
DictKeySet(d) == {d[i].k : i \in 1..Len(d)}
DictValues(d) == [i \in 1..Len(d) |-> d[i].v]
DictGet(d, key) == d[CHOOSE i \in 1..Len(d) : d[i].k = key].v

\* d[key] = val: an existing key keeps its position, a new key is appended
DictSet(d, key, val) ==
    IF key \in DictKeySet(d)
    THEN [i \in 1..Len(d) |-> IF d[i].k = key THEN [k |-> key, v |-> val] ELSE d[i]]
    ELSE Append(d, [k |-> key, v |-> val])

\* d.update(e)
RECURSIVE DictUpdate(_, _)
DictUpdate(d, e) ==
    IF e = <<>> THEN d
    ELSE DictUpdate(DictSet(d, Head(e).k, Head(e).v), Tail(e))

\* exceptions: the type raised and what its message names
NoError == [type |-> None, what |-> None]
KeyError(what) == [type |-> "KeyError", what |-> what]
TypeError(what) == [type |-> "TypeError", what |-> what]
ValueError(what) == [type |-> "ValueError", what |-> what]
ZeroDivisionError(what) == [type |-> "ZeroDivisionError", what |-> what]
NotImplementedError(what) == [type |-> "NotImplementedError", what |-> what]
AttributeError(what) == [type |-> "AttributeError", what |-> what]

-----------------------------------------------------------------------------
(* rules/fuzzyrule.py: reading a rule *)

\* a lower-casing of the keywords that leaves every other word as it is
LowerKeywordsOnly(word) ==
    CASE word = "IF" -> "if"
      [] word = "AND" -> "and"
      [] word = "Or" -> "or"
      [] word = "Is" -> "is"
      [] word = "Then" -> "then"
      [] OTHER -> word

\* str.lower() on the words of the model's vocabulary
Lower(word) ==
    CASE word = "IF" -> "if"
      [] word = "AND" -> "and"
      [] word = "Or" -> "or"
      [] word = "Is" -> "is"
      [] word = "Then" -> "then"
      [] word = "X" -> "x"
      [] word = "Lo" -> "lo"
      [] OTHER -> word

\* an antecedent that is never a conjunction
_AntecedentOr(group_name, fn_name, is_and) ==
    [group_name |-> group_name, fn_name |-> fn_name, is_and |-> FALSE]

_Antecedent(group_name, fn_name, is_and) ==
    [group_name |-> group_name, fn_name |-> fn_name, is_and |-> is_and]

_Consequent(group_name, fn_name) ==
    [group_name |-> group_name, fn_name |-> fn_name]

\* the local variables of _read_rule before the first word
ReadInit ==
    [antecedents |-> <<>>, consequent |-> <<>>, end_clause |-> FALSE,
     is_and |-> FALSE, mf_g_name |-> None, is_consequent |-> FALSE]

\* one iteration of the loop over the words of the rule
ReadWord(st, raw) ==
    LET word == Lower(raw) IN
    IF ~st.is_consequent
    THEN IF word \in {"if", "or"} THEN [st EXCEPT !.is_and = FALSE]
         ELSE IF word = "and" THEN [st EXCEPT !.is_and = TRUE]
         ELSE IF word = "is" THEN [st EXCEPT !.end_clause = TRUE]
         ELSE IF st.end_clause
              THEN [st EXCEPT !.end_clause = FALSE,
                              !.antecedents =
                                  Append(@, _Antecedent(st.mf_g_name, word, st.is_and))]
         ELSE IF word = "then" THEN [st EXCEPT !.is_consequent = TRUE]
         ELSE [st EXCEPT !.mf_g_name = word]
    ELSE IF word = "is" THEN [st EXCEPT !.end_clause = TRUE]
         ELSE IF st.end_clause
              THEN [st EXCEPT !.consequent = <<_Consequent(st.mf_g_name, word)>>]
         ELSE [st EXCEPT !.mf_g_name = word]

RECURSIVE ReadLoop(_, _)
ReadLoop(st, rule) ==
    IF rule = <<>> THEN st ELSE ReadLoop(ReadWord(st, Head(rule)), Tail(rule))

\* FuzzyRule._read_rule: the words of the text to (antecedents, consequent);
\* no path of the function raises
_read_rule(rule_text) ==
    LET st == ReadLoop(ReadInit, rule_text) IN
    [antecedents |-> st.antecedents, consequent |-> st.consequent]

\* FuzzyRule(rule_text): the object constructed; __init__ has no path that
\* raises
FuzzyRule(rule_text) == _read_rule(rule_text)

-----------------------------------------------------------------------------
(* rules/fuzzyruleset.py *)

RECURSIVE get_input_names(_)
get_input_names(rules) ==
    IF rules = <<>> THEN {}
    ELSE {a.group_name : a \in Range(Head(rules).antecedents)}
             \cup get_input_names(Tail(rules))

\* the name of the first rule's consequent alone
get_outputs_first(rules) ==
    IF rules = <<>> THEN {}
    ELSE {c.group_name : c \in Range(Head(rules).consequent)}

\* the names added for the rules whose consequent is an object; for a rule
\* whose consequent is None the attribute access raises (see FuzzyRuleset)
RECURSIVE get_outputs_name(_)
get_outputs_name(rules) ==
    IF rules = <<>> THEN {}
    ELSE {c.group_name : c \in Range(Head(rules).consequent)}
             \cup get_outputs_name(Tail(rules))

\* FuzzyRuleset(source) for a list of rule texts: the object, or the
\* AttributeError of get_outputs_name on a rule whose consequent is None
FuzzyRuleset(source) ==
    LET rules == [i \in 1..Len(source) |-> FuzzyRule(source[i])] IN
    IF \E i \in 1..Len(rules) : rules[i].consequent = <<>>
    THEN [rules |-> rules, input_names |-> get_input_names(rules),
          output_names |-> {}, error |-> AttributeError("group_name")]
    ELSE [rules |-> rules,
          input_names |-> get_input_names(rules),
          output_names |-> get_outputs_name(rules),
          error |-> NoError]

\* The ruleset objects the callers of the network construct.
RulesetPool ==
    << FuzzyRuleset(<< <<"if", "x", "is", "lo", "then", "y", "is", "hi">> >>),
       FuzzyRuleset(<< <<"if", "y", "is", "lo", "then", "x", "is", "hi">> >>),
       FuzzyRuleset(<< <<"if", "x", "is", "lo", "or", "y", "is", "hi",
                         "then", "y", "is", "lo">>,
                       <<"if", "x", "is", "hi", "then", "y", "is", "hi">> >>) >>

\* the indices of the ruleset objects
RulesetIds == {1, 2, 3}

\* the names callers give to nodes, and the variables (groups) of the groupset
NodeNames == {"a", "b", "c"}
Groups == {"x", "y"}

-----------------------------------------------------------------------------
(* network/fuzzynetwork.py: the state of one FuzzyNetwork *)

VARIABLES
    rulesets,       \* arena of the FuzzyRuleset objects; a node holds an index
    nodes,          \* arena of _FuzzyNode objects: [name, ruleset, branches]
    roots,          \* FuzzyNetwork.roots: dict name -> node
    node_names,     \* FuzzyNetwork.node_names
    input_names,    \* FuzzyNetwork.input_names: set of <<node name, group>>
    output_names,   \* FuzzyNetwork.output_names
    pc,             \* "idle", or "eval" while an eval_* call is running
    call,           \* the operation last called, with its arguments
    error,          \* the exception the last operation raised, if any
    ret,            \* the value the last operation returned, if any
    fn_type,        \* _eval_subtree's fn_type of the running evaluation
    inputs,         \* the caller's input mapping of the running evaluation
    all_inputs,     \* the running copy of the inputs
    all_outputs,    \* every evaluated node's result, by node name
    root_i,         \* position of the loop over self.roots.values()
    stack,          \* the _eval_subtree calls in progress: [node, i]
    trace           \* history: the engine evaluations and merges so far

netVars == <<nodes, roots, node_names, input_names, output_names>>
evalVars == <<fn_type, inputs, all_inputs, all_outputs, root_i, stack, trace>>

EmptyMap == [g \in {} |-> 0]
NoReturn == [kind |-> None, req |-> {}, out |-> EmptyMap]
\* a call: the operation; for an insert whether it was called on a node, whether
\* its mapping held a name already in the network and whether it held a name
\* not yet in it; for an evaluation its return_all
NoCall == [op |-> None, on_node |-> FALSE, dup |-> FALSE, new |-> FALSE,
           return_all |-> FALSE]
InsertCall(on_node, mapping) ==
    [op |-> "insert", on_node |-> on_node,
     dup |-> DictKeySet(mapping) \cap node_names # {},
     new |-> DictKeySet(mapping) \ node_names # {},
     return_all |-> FALSE]

\* the network as one value
Net == [nodes |-> nodes, roots |-> roots, node_names |-> node_names,
        input_names |-> input_names, output_names |-> output_names]

Ruleset(n, id) == rulesets[n.nodes[id].ruleset]
Branches(n, id) == n.nodes[id].branches

\* _FuzzyNode(name, rset, network)
_FuzzyNode(name, rset) == [name |-> name, ruleset |-> rset, branches |-> <<>>]

ValidateFirstOnly(new_names, names) ==
    IF new_names # <<>> /\ Head(new_names) \in names THEN Head(new_names) ELSE None

ValidateNever(new_names, names) == None

\* FuzzyNetwork._validate_node_names: the name the KeyError is raised for, or
\* None when every new name passes
RECURSIVE _validate_node_names(_, _)
_validate_node_names(new_names, names) ==
    IF new_names = <<>> THEN None
    ELSE IF Head(new_names) \in names THEN Head(new_names)
    ELSE _validate_node_names(Tail(new_names), names)

\* an update of the input registry alone
_update_ioInputsOnly(n, new_nodes) ==
    [n EXCEPT
       !.input_names = @ \cup
           UNION {{<<e.k, g>> : g \in Ruleset(n, e.v).input_names} : e \in Range(new_nodes)}]

\* FuzzyNetwork._update_io for new_nodes: dict name -> node
_update_io(n, new_nodes) ==
    [n EXCEPT
       !.input_names = @ \cup
           UNION {{<<e.k, g>> : g \in Ruleset(n, e.v).input_names} : e \in Range(new_nodes)},
       !.output_names = @ \cup
           UNION {{<<e.k, g>> : g \in Ruleset(n, e.v).output_names} : e \in Range(new_nodes)}]

\* the node objects constructed for a mapping name -> ruleset, and the dict
\* name -> node of them (conv_roots, conv_branches)
NewNodes(new) == [i \in 1..Len(new) |-> _FuzzyNode(new[i].k, new[i].v)]
Conv(n, new) == [i \in 1..Len(new) |-> [k |-> new[i].k, v |-> Len(n.nodes) + i]]

\* FuzzyNetwork.insert(new_roots): the network afterwards and the error raised
FuzzyNetwork_insert(n, new_roots) ==
    LET dup == _validate_node_names(DictKeys(new_roots), n.node_names) IN
    IF dup # None
    THEN [net |-> n, error |-> KeyError(dup)]
    ELSE LET conv_roots == Conv(n, new_roots)
             n1 == [n EXCEPT !.node_names = @ \cup DictKeySet(new_roots),
                             !.nodes = @ \o NewNodes(new_roots),
                             !.roots = DictUpdate(@, conv_roots)]
         IN [net |-> _update_io(n1, conv_roots), error |-> NoError]

\* _FuzzyNode.insert(new_branches) on the node self
_FuzzyNode_insert(n, self, new_branches) ==
    LET dup == _validate_node_names(DictKeys(new_branches), n.node_names) IN
    IF dup # None
    THEN [net |-> n, error |-> KeyError(dup)]
    ELSE LET conv_branches == Conv(n, new_branches)
             n1 == [n EXCEPT !.node_names = @ \cup DictKeySet(new_branches),
                             !.nodes = @ \o NewNodes(new_branches)]
             n2 == [n1 EXCEPT !.nodes[self].branches = DictUpdate(@, conv_branches)]
         IN [net |-> _update_io(n2, conv_branches), error |-> NoError]

\* FuzzyNetwork._get_node: the node called node_name in the subtree of
\* current_node, or 0 (None)
RECURSIVE _get_node(_, _, _)
RECURSIVE GetNodeIn(_, _, _, _)
GetNodeIn(n, node_name, branches, i) ==
    IF i > Len(branches) THEN 0
    ELSE LET result == _get_node(n, node_name, branches[i].v) IN
         IF result # 0 THEN result ELSE GetNodeIn(n, node_name, branches, i + 1)

_get_node(n, node_name, current_node) ==
    IF n.nodes[current_node].name = node_name THEN current_node
    ELSE IF Branches(n, current_node) = <<>> THEN 0
    ELSE GetNodeIn(n, node_name, Branches(n, current_node), 1)

\* FuzzyNetwork.__getitem__: the node, or 0 when a KeyError is raised
GetItem(n, node_name) ==
    IF node_name \notin n.node_names THEN 0
    ELSE GetNodeIn(n, node_name, n.roots, 1)

\* the mappings name -> ruleset a caller may hand to insert: distinct keys
Mappings ==
    {m \in UNION {[1..k -> [k : NodeNames, v : RulesetIds]] : k \in 1..MaxMapLen} :
        \A i, j \in 1..Len(m) : m[i].k = m[j].k => i = j}

-----------------------------------------------------------------------------
(* network/fuzzynetwork.py: required inputs *)

\* FuzzyNetwork._update_addressed(addressed, node): the set afterwards
RECURSIVE _update_addressed(_, _, _)
RECURSIVE AddressedLoop(_, _, _, _)
RECURSIVE AddressedLoopBranchName(_, _, _, _)
AddressedLoopBranchName(n, addressed, node, i) ==
    IF i > Len(Branches(n, node)) THEN addressed
    ELSE LET branch == Branches(n, node)[i].v
             a1 == addressed \cup
                   {<<n.nodes[branch].name, output>> :
                        output \in Ruleset(n, branch).output_names
                                       \cap Ruleset(n, node).input_names}
         IN AddressedLoopBranchName(n, _update_addressed(n, a1, branch), node, i + 1)

AddressedLoop(n, addressed, node, i) ==
    IF i > Len(Branches(n, node)) THEN addressed
    ELSE LET branch == Branches(n, node)[i].v
             a1 == addressed \cup
                   {<<n.nodes[node].name, output>> :
                        output \in Ruleset(n, branch).output_names
                                       \cap Ruleset(n, node).input_names}
         IN AddressedLoop(n, _update_addressed(n, a1, branch), node, i + 1)

_update_addressed(n, addressed, node) == AddressedLoop(n, addressed, node, 1)

RECURSIVE AddressedRoots(_, _, _)
AddressedRoots(n, addressed, i) ==
    IF i > Len(n.roots) THEN addressed
    ELSE AddressedRoots(n, _update_addressed(n, addressed, n.roots[i].v), i + 1)

\* FuzzyNetwork.req_inputs()
req_inputs(n) == n.input_names \ AddressedRoots(n, {}, 1)

-----------------------------------------------------------------------------
(* fis/fis.py as the network sees it: an engine reads the inputs its rules   *)
(* name and returns one result per output group.  The number computed is    *)
(* abstracted to a deterministic function of the ruleset and of the values  *)
(* read; the three result forms (memberships, Mamdani curve, TSK scalar)    *)
(* are kept apart by their kind.                                            *)

\* values a caller supplies
InputVals == {0}

\* scalars are kept in 1..ValMod
ValMod == 7

GroupCode(g) == IF g = "x" THEN 1 ELSE 2

\* the first group a rule's antecedents name that x has no entry for
\* (FuzzyRule.evaluate raises KeyError for it), or None
RECURSIVE MissingInRule(_, _)
MissingInRule(antecedents, x) ==
    IF antecedents = <<>> THEN None
    ELSE IF Head(antecedents).group_name \notin DOMAIN x
         THEN Head(antecedents).group_name
    ELSE MissingInRule(Tail(antecedents), x)

RECURSIVE MissingInRules(_, _)
MissingInRules(rules, x) ==
    IF rules = <<>> THEN None
    ELSE LET m == MissingInRule(Head(rules).antecedents, x) IN
         IF m # None THEN m ELSE MissingInRules(Tail(rules), x)

\* the defuzzified scalar of output group g of ruleset rs on inputs x
Crisp(rs, g, x) ==
    1 + ((rs + GroupCode(g)
            + 2 * SumSeq([i \in 1..Cardinality(rulesets[rs].input_names) |->
                            x[SetToSeq(rulesets[rs].input_names)[i]]])) % ValMod)

\* the result form each evaluation type asks an engine for
\* (branch.eval_mamdani / eval_tsk / eval_membership)
EngineKind(ft) ==
    IF ft = "mam" THEN "mam" ELSE IF ft = "tsk" THEN "tsk" ELSE "memb"

\* FIS.eval_membership / eval_mamdani / eval_tsk of a node on x
EngineCall(n, node, kind, x) ==
    LET rs == n.nodes[node].ruleset
        missing == MissingInRules(rulesets[rs].rules, x)
    IN IF missing # None
       THEN [ok |-> FALSE, error |-> KeyError(missing),
             out |-> [kind |-> kind, vals |-> EmptyMap]]
       ELSE [ok |-> TRUE, error |-> NoError,
             out |-> [kind |-> kind,
                      vals |-> [g \in rulesets[rs].output_names |-> Crisp(rs, g, x)]]]

\* the conversion of a branch's result to scalars: FIS.defuzz_mamdani takes one
\* argument and is called with two (TypeError) in the Mamdani types
Defuzzify(ft, out) ==
    IF ft \in {"mam", "raw-mam"} /\ DOMAIN out.vals # {}
    THEN [ok |-> FALSE, error |-> TypeError("defuzz_mamdani"), vals |-> EmptyMap]
    ELSE [ok |-> TRUE, error |-> NoError, vals |-> out.vals]

MergeKeepOld(d, new_outputs) ==
    [g \in DOMAIN d \cup DOMAIN new_outputs |->
        IF g \in DOMAIN d THEN d[g] ELSE new_outputs[g]]

\* all_inputs.update(new_outputs)
Merge(d, new_outputs) ==
    [g \in DOMAIN d \cup DOMAIN new_outputs |->
        IF g \in DOMAIN new_outputs THEN new_outputs[g] ELSE d[g]]

\* all_outputs[name] = result
SetOutput(d, name, result) ==
    [k \in DOMAIN d \cup {name} |-> IF k = name THEN result ELSE d[k]]

FinalOutputsAll(n, outs, return_all) == outs

\* FuzzyNetwork._get_final_outputs
_get_final_outputs(n, outs, return_all) ==
    IF return_all THEN outs
    ELSE [name \in {k \in DOMAIN outs : k \in DictKeySet(n.roots)} |-> outs[name]]

-----------------------------------------------------------------------------
(* rules/fuzzyrule.py: the state of one rule under construction and use *)

VARIABLES
    rule_text,      \* the words of the text handed to FuzzyRule
    rule,           \* the FuzzyRule object constructed from it, if any
    rule_x,         \* the input mapping handed to rule.evaluate
    rule_ret        \* what rule.evaluate returned or raised

(* fis/fis.py: one inference system and the evaluations made on it *)

VARIABLES
    fis_source,     \* the rule texts handed to FuzzyRuleset
    fis,            \* the FIS built on the groupset and that ruleset, if any
    fis_x,          \* the input mapping the caller holds and evaluates it on
    fis_ret         \* what the last operation on it returned or raised

(* membership/fuzzyfunc.py: one membership function and the calls made on it *)

VARIABLES
    func_args,      \* the arguments handed to FuzzyFunc
    func,           \* the FuzzyFunc object constructed from them, if any
    func_a,         \* the value the function was last called with
    func_ret        \* what that call returned or raised

(* network/fuzzynetwork.py: the result of the first of two evaluations that a
   caller makes with the same dictionary of inputs *)

VARIABLES
    first

fisVars == <<fis_source, fis, fis_x, fis_ret>>

funcVars == <<func_args, func, func_a, func_ret>>

\* what no operation of the network changes
ruleVars == <<rulesets, rule_text, rule, rule_x, rule_ret, fisVars, funcVars>>

vars == <<rulesets, nodes, roots, node_names, input_names, output_names, pc, call, error,
          ret, fn_type, inputs, all_inputs, all_outputs, root_i, stack, trace,
          rule_text, rule, rule_x, rule_ret, fisVars, funcVars, first>>

NoRule == [antecedents |-> <<>>, consequent |-> <<>>]
NoRuleRet == [kind |-> None, error |-> NoError, group |-> None, fn |-> None,
              strength |-> 0]

NoFis == [groupset |-> <<>>, ruleset |-> <<>>]
NoFisRet == [op |-> None, error |-> NoError, out |-> <<>>]

NoFunc == [name |-> None]
NoFuncRet == [kind |-> None, error |-> NoError, value |-> <<>>]

NoFirst == <<>>

FisIdle ==
    /\ fis_source = <<>>
    /\ fis = NoFis
    /\ fis_x = <<>>
    /\ fis_ret = NoFisRet

FuncIdle ==
    /\ func_args = <<>>
    /\ func = NoFunc
    /\ func_a = <<>>
    /\ func_ret = NoFuncRet

RuleIdle ==
    /\ rule_text = <<>>
    /\ rule = NoRule
    /\ rule_x = EmptyMap
    /\ rule_ret = NoRuleRet

-----------------------------------------------------------------------------
(* The network: construction, insertion, required inputs, evaluation *)

EvalIdle ==
    /\ fn_type = None
    /\ inputs = EmptyMap
    /\ all_inputs = EmptyMap
    /\ all_outputs = EmptyMap
    /\ root_i = 0
    /\ stack = <<>>
    /\ trace = <<>>

\* FuzzyNetwork.__init__
NetInit ==
    /\ rulesets = RulesetPool
    /\ nodes = <<>>
    /\ roots = <<>>
    /\ node_names = {}
    /\ input_names = {}
    /\ output_names = {}
    /\ pc = "idle"
    /\ call = NoCall
    /\ error = NoError
    /\ ret = NoReturn
    /\ EvalIdle
    /\ first = NoFirst

Init == NetInit /\ RuleIdle /\ FisIdle /\ FuncIdle

\* An evaluation leaves the network as it was (every step of it leaves netVars
\* unchanged), so does an insert that raises (C2_FailedInsertUnchanged checks
\* it on every raising step), and the next operation drops what the last one
\* left behind: an operation called after one of these gives the state it
\* gives when called before it.  The next operation is therefore taken from
\* the states in which no evaluation has run and the last call did not raise.
Fresh == pc = "idle" /\ fn_type = None /\ error.type = None

ResetEval ==
    /\ fn_type' = None
    /\ inputs' = EmptyMap
    /\ all_inputs' = EmptyMap
    /\ all_outputs' = EmptyMap
    /\ root_i' = 0
    /\ stack' = <<>>
    /\ trace' = <<>>

SetNet(n) ==
    /\ nodes' = n.nodes
    /\ roots' = n.roots
    /\ node_names' = n.node_names
    /\ input_names' = n.input_names
    /\ output_names' = n.output_names

\* network.insert(new_roots)
InsertRoots(new_roots) ==
    /\ Fresh
    /\ LET r == FuzzyNetwork_insert(Net, new_roots) IN
         /\ Len(r.net.nodes) <= MaxNodes
         /\ SetNet(r.net)
         /\ error' = r.error
    /\ call' = InsertCall(FALSE, new_roots)
    /\ ret' = NoReturn
    /\ ResetEval
    /\ UNCHANGED <<pc, first, ruleVars>>

\* network[parent].insert(new_branches)
InsertBranches(parent, new_branches) ==
    /\ Fresh
    /\ GetItem(Net, parent) # 0
    /\ LET r == _FuzzyNode_insert(Net, GetItem(Net, parent), new_branches) IN
         /\ Len(r.net.nodes) <= MaxNodes
         /\ SetNet(r.net)
         /\ error' = r.error
    /\ call' = InsertCall(TRUE, new_branches)
    /\ ret' = NoReturn
    /\ ResetEval
    /\ UNCHANGED <<pc, first, ruleVars>>

\* network.req_inputs()
ReqInputs ==
    /\ Fresh
    /\ ret' = [kind |-> "req_inputs", req |-> req_inputs(Net), out |-> EmptyMap]
    /\ call' = [NoCall EXCEPT !.op = "req_inputs"]
    /\ error' = NoError
    /\ ResetEval
    /\ UNCHANGED <<netVars, pc, first, ruleVars>>

\* the input mappings a caller may hand to an evaluation
InputMaps == UNION {[S -> InputVals] : S \in SUBSET Groups}

\* the evaluation types: eval_tsk, eval_mamdani, eval_membership(use_tsk)
FnTypes == {"tsk", "mam", "raw-tsk", "raw-mam"}

EvalOp(ft) ==
    IF ft = "tsk" THEN "eval_tsk" ELSE IF ft = "mam" THEN "eval_mamdani"
    ELSE "eval_membership"

\* eval_tsk / eval_mamdani / eval_membership up to the loop over the roots
StartEval(ft, x) ==
    /\ Fresh
    /\ pc' = "eval"
    /\ fn_type' = ft
    /\ inputs' = x
    /\ all_inputs' = x
    /\ all_outputs' = EmptyMap
    /\ root_i' = 1
    /\ stack' = <<>>
    /\ trace' = <<>>
    /\ call' = [NoCall EXCEPT !.op = EvalOp(ft)]
    /\ error' = NoError
    /\ ret' = NoReturn
    /\ UNCHANGED <<netVars, first, ruleVars>>

Top == stack[Len(stack)]

LoopDoneEarly(f) == f.i > Min(1, Len(Branches(Net, f.node)))

\* the loop over node.branches.values() of _eval_subtree has no branch left
LoopDone(f) == f.i > Len(Branches(Net, f.node))

\* the loop over the roots calls _eval_subtree for the next root
EnterRoot ==
    /\ pc = "eval"
    /\ stack = <<>>
    /\ root_i <= Len(roots)
    /\ stack' = <<[node |-> roots[root_i].v, i |-> 1]>>
    /\ UNCHANGED <<netVars, pc, call, error, ret, fn_type, inputs, all_inputs,
                   all_outputs, root_i, trace, first, ruleVars>>

\* _eval_subtree calls itself for the next branch
Descend ==
    /\ pc = "eval"
    /\ stack # <<>>
    /\ ~LoopDone(Top)
    /\ stack' = Append(stack, [node |-> Branches(Net, Top.node)[Top.i].v, i |-> 1])
    /\ UNCHANGED <<netVars, pc, call, error, ret, fn_type, inputs, all_inputs,
                   all_outputs, root_i, trace, first, ruleVars>>

Event(ev, node, vals) == [ev |-> ev, node |-> node, vals |-> vals]

\* the inputs an engine reads of x
Seen(node, x) ==
    [g \in Ruleset(Net, node).input_names \cap DOMAIN x |-> x[g]]

\* all_inputs = inputs.copy() shares the caller's dictionary
copyShared(caller_inputs, updated) == updated

\* all_inputs = inputs.copy(): the dictionary that all_inputs.update(...) has
\* changed is a new one, and the caller's dictionary is what it was
copy(caller_inputs, updated) == caller_inputs

\* the call for a branch has returned: the branch is evaluated, its result
\* saved, converted and merged
EvalBranch ==
    /\ pc = "eval"
    /\ Len(stack) >= 2
    /\ LoopDone(Top)
    /\ LET branch == Top.node
           r == EngineCall(Net, branch, EngineKind(fn_type), all_inputs)
           conv == Defuzzify(fn_type, r.out)
           caller == stack[Len(stack) - 1]
           evt == Event("eval", branch, Seen(branch, all_inputs))
       IN IF ~r.ok
          THEN /\ error' = r.error
               /\ pc' = "idle"
               /\ trace' = Append(trace, Event("fail", branch, Seen(branch, all_inputs)))
               /\ UNCHANGED <<inputs, all_inputs, all_outputs, stack>>
          ELSE /\ all_outputs' = SetOutput(all_outputs, nodes[branch].name, r.out)
               /\ IF ~conv.ok
                  THEN /\ error' = conv.error
                       /\ pc' = "idle"
                       /\ trace' = Append(trace, evt)
                       /\ UNCHANGED <<inputs, all_inputs, stack>>
                  ELSE /\ all_inputs' = Merge(all_inputs, conv.vals)
                       /\ inputs' = copy(inputs, all_inputs')
                       /\ trace' = trace \o <<evt, Event("merge", branch, conv.vals)>>
                       /\ stack' = SubSeq(stack, 1, Len(stack) - 2)
                                      \o <<[caller EXCEPT !.i = @ + 1]>>
                       /\ UNCHANGED <<error, pc>>
    /\ UNCHANGED <<netVars, call, ret, fn_type, root_i, first, ruleVars>>

\* a loop over the roots that writes each root's result into the inputs
AfterRootMerged(d, root_outputs) == Merge(d, root_outputs)

\* all_inputs after the statement that saves a root's result: the loops
\* over the roots of eval_tsk, eval_mamdani and eval_membership assign
\* all_outputs[root.name] and have no all_inputs.update for the root
AfterRoot(d, root_outputs) == d

\* _eval_subtree has returned for a root: the root's own result is saved
EvalRoot ==
    /\ pc = "eval"
    /\ Len(stack) = 1
    /\ LoopDone(Top)
    /\ LET root == Top.node
           r == EngineCall(Net, root, EngineKind(fn_type), all_inputs)
       IN IF ~r.ok
          THEN /\ error' = r.error
               /\ pc' = "idle"
               /\ trace' = Append(trace, Event("fail", root, Seen(root, all_inputs)))
               /\ UNCHANGED <<all_inputs, all_outputs, stack, root_i>>
          ELSE /\ all_outputs' = SetOutput(all_outputs, nodes[root].name, r.out)
               /\ all_inputs' = AfterRoot(all_inputs, r.out.vals)
               /\ trace' = Append(trace, Event("eval", root, Seen(root, all_inputs)))
               /\ stack' = <<>>
               /\ root_i' = root_i + 1
               /\ UNCHANGED <<error, pc>>
    /\ UNCHANGED <<netVars, call, ret, fn_type, inputs, first, ruleVars>>

\* the loop over the roots is over: return self._get_final_outputs(...)
Return(return_all) ==
    /\ pc = "eval"
    /\ stack = <<>>
    /\ root_i > Len(roots)
    /\ first # NoFirst => return_all = call.return_all
    /\ ret' = [kind |-> "outputs", req |-> {},
               out |-> _get_final_outputs(Net, all_outputs, return_all)]
    /\ call' = [call EXCEPT !.return_all = return_all]
    /\ pc' = "idle"
    /\ UNCHANGED <<netVars, error, evalVars, first, ruleVars>>

\* the caller makes the same evaluation call again, with the dictionary of
\* inputs it handed to the first one
EvalAgain ==
    /\ pc = "idle"
    /\ ret.kind = "outputs"
    /\ fn_type # None
    /\ first = NoFirst
    /\ first' = <<ret.out>>
    /\ pc' = "eval"
    /\ all_inputs' = inputs
    /\ all_outputs' = EmptyMap
    /\ root_i' = 1
    /\ stack' = <<>>
    /\ trace' = <<>>
    /\ ret' = NoReturn
    /\ UNCHANGED <<netVars, call, error, fn_type, inputs, ruleVars>>

Next ==
    \/ \E m \in Mappings : InsertRoots(m)
    \/ \E p \in NodeNames, m \in Mappings : InsertBranches(p, m)
    \/ ReqInputs
    \/ \E ft \in FnTypes, x \in InputMaps : StartEval(ft, x)
    \/ EvalAgain
    \/ EnterRoot
    \/ Descend
    \/ EvalBranch
    \/ EvalRoot
    \/ \E return_all \in BOOLEAN : Return(return_all)

Spec == Init /\ [][Next]_vars

-----------------------------------------------------------------------------
(* Notions the properties of the network are stated with *)

NodeIds == 1..Len(nodes)
BranchIds(id) == {nodes[id].branches[i].v : i \in 1..Len(nodes[id].branches)}
RootIds == {roots[i].v : i \in 1..Len(roots)}

\* the nodes below id, at any depth up to d
RECURSIVE DescTo(_, _)
DescTo(id, d) ==
    IF d = 0 THEN {}
    ELSE BranchIds(id) \cup UNION {DescTo(b, d - 1) : b \in BranchIds(id)}

Desc(id) == DescTo(id, Len(nodes))

\* the number of places (root entries, branch entries) that hold node id
Holders(id) ==
    Cardinality({i \in 1..Len(roots) : roots[i].v = id})
      + SumSeq([p \in 1..Len(nodes) |->
                  Cardinality({i \in 1..Len(nodes[p].branches) :
                                  nodes[p].branches[i].v = id})])

IsPrefix(s, t) == Len(s) <= Len(t) /\ \A i \in 1..Len(s) : s[i] = t[i]

\* the positions of the trace at which node id's engine was called
EvalAt(id) == {i \in 1..Len(trace) : trace[i].ev \in {"eval", "fail"} /\ trace[i].node = id}
MergeAt(id) == {i \in 1..Len(trace) : trace[i].ev = "merge" /\ trace[i].node = id}

\* the merges before position i that wrote group g
WritesBefore(i, g) ==
    {j \in 1..(i - 1) : trace[j].ev = "merge" /\ g \in DOMAIN trace[j].vals}

LastOf(S) == CHOOSE j \in S : \A k \in S : k <= j

\* the caller's inputs overlaid with every merge before position i, the last
\* writer of a group winning
InputsAt(i) ==
    [g \in DOMAIN inputs \cup {h \in Groups : WritesBefore(i, h) # {}} |->
        IF WritesBefore(i, g) # {} THEN trace[LastOf(WritesBefore(i, g))].vals[g]
        ELSE inputs[g]]

-----------------------------------------------------------------------------
(* C1 *)

\* C1: in every evaluation a node's engine is called only after each of its
\* branches has been evaluated and merged; the branches of one node are
\* evaluated in insertion order, and so are the roots.
C1_ChildrenBeforeParent ==
    \A i \in 1..Len(trace) :
        trace[i].ev \in {"eval", "fail"} =>
            LET id == trace[i].node IN
            /\ \A b \in BranchIds(id) :
                   /\ \E j \in EvalAt(b) : j < i
                   /\ \E j \in MergeAt(b) : j < i
            /\ \A p \in NodeIds : \A k1, k2 \in 1..Len(nodes[p].branches) :
                   (k1 < k2 /\ nodes[p].branches[k2].v = id) =>
                       \E j \in MergeAt(nodes[p].branches[k1].v) : j < i
            /\ \A k1, k2 \in 1..Len(roots) :
                   (k1 < k2 /\ roots[k2].v = id) =>
                       \E j \in EvalAt(roots[k1].v) : j < i

\* a finished evaluation in which a node with two branches was evaluated
C1_Witness ==
    /\ ret.kind = "outputs"
    /\ \E i \in 1..Len(trace) :
          trace[i].ev = "eval" /\ Len(nodes[trace[i].node].branches) = 2

-----------------------------------------------------------------------------
(* C2 *)

\* C2: an insert (of roots or of branches) whose mapping holds a name that is
\* already in the network raises the duplicate-name KeyError and leaves the
\* nodes, their branches, the roots and the three name registries unchanged.
C2_FailedInsertUnchanged ==
    [][(Fresh /\ call'.op = "insert" /\ call'.dup)
          => /\ error'.type = "KeyError"
             /\ error'.what \in node_names
             /\ UNCHANGED netVars]_vars

\* a failed insert of branches whose mapping also held a new name
C2_Witness ==
    /\ call.op = "insert"
    /\ call.on_node
    /\ call.dup /\ call.new
    /\ error.type = "KeyError"

-----------------------------------------------------------------------------
(* C3 *)

\* C3: node names are pairwise distinct, every node is held by exactly one
\* place (a root entry or one branch entry), no node is below itself, and a
\* step only appends leaf nodes: existing nodes keep their name, ruleset and
\* their branches in order, new nodes have no branches.
C3_Forest ==
    /\ [](/\ \A i, j \in NodeIds : nodes[i].name = nodes[j].name => i = j
          /\ node_names = {nodes[i].name : i \in NodeIds}
          /\ \A i \in NodeIds : Holders(i) = 1 /\ i \notin Desc(i)
          /\ NodeIds = RootIds \cup UNION {Desc(r) : r \in RootIds})
    /\ [][/\ Len(nodes) <= Len(nodes')
          /\ IsPrefix(roots, roots')
          /\ \A i \in 1..Len(nodes) :
                /\ nodes'[i].name = nodes[i].name
                /\ nodes'[i].ruleset = nodes[i].ruleset
                /\ IsPrefix(nodes[i].branches, nodes'[i].branches)
          /\ \A i \in (Len(nodes) + 1)..Len(nodes') : nodes'[i].branches = <<>>]_vars

\* three nodes in a chain, reached with a failed insert as the last operation
C3_Witness ==
    /\ Len(nodes) = 3
    /\ \E i \in NodeIds : \E b \in BranchIds(i) : BranchIds(b) # {}
    /\ call.op = "insert"
    /\ error.type = "KeyError"

-----------------------------------------------------------------------------
(* C4 *)

\* the pairs (node, group) whose group is an output of a node below the node,
\* at any depth
ProducedBelow ==
    {p \in input_names :
        \E id \in NodeIds :
            /\ nodes[id].name = p[1]
            /\ \E d \in Desc(id) : p[2] \in Ruleset(Net, d).output_names}

\* the pairs whose group is an output of a branch of the node itself
ProducedByBranch ==
    {p \in input_names :
        \E id \in NodeIds :
            /\ nodes[id].name = p[1]
            /\ \E d \in BranchIds(id) : p[2] \in Ruleset(Net, d).output_names}

\* C4: req_inputs() returns the registered input pairs minus every pair whose
\* group is an output of some descendant of the node, at any depth.
C4_ReqInputsAnyDepth ==
    ret.kind = "req_inputs" => ret.req = input_names \ ProducedBelow

\* C4, as the code computes it: only the outputs of the node's own branches
\* are taken off.
C4_ReqInputsDirectBranch ==
    ret.kind = "req_inputs" => ret.req = input_names \ ProducedByBranch

C4_Witness ==
    /\ ret.kind = "req_inputs"
    /\ ProducedByBranch # {}
    /\ ProducedBelow # ProducedByBranch

-----------------------------------------------------------------------------
(* C5 *)

\* the caller's mapping has a value for every group of a required pair
Covers(x, req) == \A p \in req : p[2] \in DOMAIN x

\* C5: in eval_tsk every pair left out of req_inputs() is in the running
\* inputs when its node's engine is called, and when the caller's mapping
\* covers req_inputs() no engine raises the missing-input KeyError.
C5_RequiredInputsSuffice ==
    fn_type = "tsk" =>
        /\ \A i \in 1..Len(trace) :
              trace[i].ev \in {"eval", "fail"} =>
                  \A g \in Ruleset(Net, trace[i].node).input_names :
                      <<nodes[trace[i].node].name, g>> \notin req_inputs(Net)
                          => g \in DOMAIN trace[i].vals
        /\ Covers(inputs, req_inputs(Net)) =>
              /\ error.type # "KeyError"
              /\ \A i \in 1..Len(trace) : trace[i].ev # "fail"

\* a finished eval_tsk whose caller supplied the required groups only, while
\* some node read a group the caller did not supply
C5_Witness ==
    /\ fn_type = "tsk"
    /\ ret.kind = "outputs"
    /\ Covers(inputs, req_inputs(Net))
    /\ \E p \in input_names \ req_inputs(Net) : p[2] \notin DOMAIN inputs

-----------------------------------------------------------------------------
(* C6 *)

\* C6: the value an engine reads for a group is the one most recently merged
\* under that name, and merges are made for non-root nodes only, each right
\* after the node's own evaluation; the caller's value is read only when no
\* merge wrote the group, and a group nobody wrote or supplied is not there.
C6_LastWriterWins ==
    /\ \A i \in 1..Len(trace) :
          trace[i].ev \in {"eval", "fail"} =>
              /\ DOMAIN trace[i].vals =
                     Ruleset(Net, trace[i].node).input_names \cap DOMAIN InputsAt(i)
              /\ \A g \in DOMAIN trace[i].vals : trace[i].vals[g] = InputsAt(i)[g]
    /\ \A j \in 1..Len(trace) :
          trace[j].ev = "merge" =>
              /\ trace[j].node \notin RootIds
              /\ j > 1 /\ trace[j - 1].ev = "eval" /\ trace[j - 1].node = trace[j].node
    /\ \A i \in 1..Len(trace) :
          (trace[i].ev = "eval" /\ trace[i].node \notin RootIds
               /\ fn_type \in {"tsk", "raw-tsk"})
              => (i < Len(trace) /\ trace[i + 1].ev = "merge"
                     /\ trace[i + 1].node = trace[i].node
                     /\ DOMAIN trace[i + 1].vals =
                            Ruleset(Net, trace[i].node).output_names)
    /\ pc = "eval" => all_inputs = InputsAt(Len(trace) + 1)

\* a finished evaluation in which a node read, for a group the caller had
\* supplied, the value a branch wrote instead
C6_Witness ==
    /\ ret.kind = "outputs"
    /\ \E i \in 1..Len(trace) :
          /\ trace[i].ev = "eval"
          /\ \E g \in DOMAIN trace[i].vals \cap DOMAIN inputs :
                trace[i].vals[g] # inputs[g]

-----------------------------------------------------------------------------
(* C7 *)

NodeNamesIn(ids) == {nodes[i].name : i \in ids}

\* C7: the mapping an evaluation returns has the root names as keys, or with
\* return_all the names of all nodes, and under each root name the root's own
\* result on the inputs as augmented by every merge made before the root was
\* evaluated.
C7_FinalOutputs ==
    ret.kind = "outputs" =>
        /\ DOMAIN ret.out =
              IF call.return_all THEN NodeNamesIn(NodeIds) ELSE NodeNamesIn(RootIds)
        /\ \A r \in RootIds :
              /\ Cardinality(EvalAt(r)) = 1
              /\ \A i \in EvalAt(r) :
                    ret.out[nodes[r].name] =
                        [kind |-> EngineKind(fn_type),
                         vals |-> [g \in Ruleset(Net, r).output_names |->
                                      Crisp(nodes[r].ruleset, g, InputsAt(i))]]

\* an evaluation without return_all that returned and dropped a branch's result
C7_Witness ==
    /\ ret.kind = "outputs"
    /\ ~call.return_all
    /\ DOMAIN ret.out # DOMAIN all_outputs
    /\ DOMAIN ret.out # {}

-----------------------------------------------------------------------------
(* Floating-point numbers *)

(***************************************************************************)
(* A float is a record [n, d]: the rational n/d in lowest terms with       *)
(* d > 0, or not-a-number [0, 0], or an infinity [1, 0], [-1, 0].          *)
(* The operations are those of numpy's float64 with its default error      *)
(* state, where a division by zero warns and gives inf or nan instead of   *)
(* raising; rounding is left out, every finite result is exact.            *)
(***************************************************************************)

Abs(i) == IF i < 0 THEN 0 - i ELSE i
Sign(i) == IF i < 0 THEN 0 - 1 ELSE IF i > 0 THEN 1 ELSE 0

RECURSIVE Gcd(_, _)
Gcd(i, j) == IF j = 0 THEN i ELSE Gcd(j, i % j)

\* the float n/d
F(n, d) ==
    IF d = 0 THEN [n |-> Sign(n), d |-> 0]
    ELSE LET g == Gcd(Abs(n), Abs(d)) IN
         [n |-> Sign(d) * (n \div g), d |-> Abs(d) \div g]

\* np.asarray(a, dtype=float) for an integer
AsFloat(i) == [n |-> i, d |-> 1]

nan == [n |-> 0, d |-> 0]
isnan(a) == a = nan
isinf(a) == a.d = 0 /\ a.n # 0

FMul(a, b) == F(a.n * b.n, a.d * b.d)

FAdd(a, b) ==
    IF isnan(a) \/ isnan(b) THEN nan
    ELSE IF isinf(a) THEN (IF isinf(b) /\ b # a THEN nan ELSE a)
    ELSE IF isinf(b) THEN b
    ELSE F(a.n * b.d + b.n * a.d, a.d * b.d)

FNeg(a) == [n |-> 0 - a.n, d |-> a.d]
FSub(a, b) == FAdd(a, FNeg(b))

\* a / b: x / 0 is an infinity and 0 / 0 is nan, no exception
FDiv(a, b) ==
    IF isnan(a) \/ isnan(b) THEN nan
    ELSE IF isinf(b) THEN (IF isinf(a) THEN nan ELSE AsFloat(0))
    ELSE IF b.n = 0 THEN F(a.n, 0)
    ELSE FMul(a, F(b.d, b.n))

\* a < b, a <= b (false when either is nan)
FLt(a, b) == ~isnan(a) /\ ~isnan(b) /\ a # b /\
             (IF a.d = 0 THEN a.n < 0 ELSE IF b.d = 0 THEN b.n > 0
              ELSE a.n * b.d < b.n * a.d)
FLe(a, b) == ~isnan(a) /\ ~isnan(b) /\ (a = b \/ FLt(a, b))

\* np.minimum, np.maximum: a nan operand gives nan
minimum(a, b) == IF isnan(a) \/ isnan(b) THEN nan ELSE IF FLt(b, a) THEN b ELSE a
maximum(a, b) == IF isnan(a) \/ isnan(b) THEN nan ELSE IF FLt(a, b) THEN b ELSE a

\* np.sum of a sequence of floats, np.mean
RECURSIVE FSum(_)
FSum(s) == IF s = <<>> THEN AsFloat(0) ELSE FAdd(Head(s), FSum(Tail(s)))

\* the first element in place of the mean
meanFirst(s) == s[1]

\* np.mean of a sequence of floats
mean(s) == FDiv(FSum(s), AsFloat(Len(s)))

\* ndarray.sort() of a sequence of floats
RECURSIVE Insert(_, _)
Insert(a, s) ==
    IF s = <<>> THEN <<a>>
    ELSE IF FLe(a, Head(s)) THEN <<a>> \o s
    ELSE <<Head(s)>> \o Insert(a, Tail(s))

RECURSIVE sort(_)
sort(s) == IF s = <<>> THEN <<>> ELSE Insert(Head(s), sort(Tail(s)))

\* caller-side literals: whole numbers, and tenths (0.1, 0.2, ...)
Ints(s) == [i \in 1..Len(s) |-> AsFloat(s[i])]
Tenths(s) == [i \in 1..Len(s) |-> F(s[i], 10)]

-----------------------------------------------------------------------------
(* membership/fuzzyfunc.py, membgroup.py, membgroupset.py *)

\* FuzzyFunc.templates: the membership values of the linear templates; the
\* "tsk" template has none (None)
templates ==
    [triangular |-> <<0, 1, 0>>,
     trapezoidal |-> <<0, 1, 1, 0>>,
     leftedge |-> <<1, 0>>,
     rightedge |-> <<0, 1>>,
     tsk |-> <<>>]

\* the differences of the membership values, not divided
slopesUnscaled(params, y) ==
    [i \in 1..(Len(params) - 1) |-> FSub(y[i + 1], y[i])]

\* the slopes __create_linear_subfunctions computes between the parameters
slopes(params, y) ==
    [i \in 1..(Len(params) - 1) |->
        FDiv(FSub(y[i + 1], y[i]), FSub(params[i + 1], params[i]))]

\* the function object before any build method has run
NewFunc(name, params) ==
    [name |-> name, fn_type |-> None, params |-> params, memb_vals |-> <<>>,
     slope |-> <<>>, _is_linear |-> FALSE, center |-> nan, error |-> NoError]

\* the shape check alone
validateShapeOnly(self, memb_vals) ==
    IF Len(self.params) # Len(memb_vals) THEN ValueError("shape") ELSE NoError

\* the two checks _build_generic starts with: the ValueError raised for a
\* membership value outside [0, 1] or for a number of membership values that
\* is not the number of parameters, or no error
validate(self, memb_vals) ==
    IF \E i \in 1..Len(memb_vals) :
           FLt(memb_vals[i], AsFloat(0)) \/ FLt(AsFloat(1), memb_vals[i])
    THEN ValueError("range")
    ELSE IF Len(self.params) # Len(memb_vals)
    THEN ValueError("shape")
    ELSE NoError

\* FuzzyFunc._build_generic(memb_vals) on the object self
_build_generic(self, memb_vals) ==
    IF validate(self, memb_vals) # NoError
    THEN [self EXCEPT !.error = validate(self, memb_vals)]
    ELSE LET params == sort(self.params)
             m == slopes(params, memb_vals)
             top == {i \in 1..Len(params) :
                        \A j \in 1..Len(params) : FLe(memb_vals[j], memb_vals[i])}
         IN IF \E i \in 1..Len(m) : isinf(m[i])
            THEN [self EXCEPT !.params = params,
                              !.error = ZeroDivisionError("slope")]
            ELSE [self EXCEPT !.params = params, !.memb_vals = memb_vals,
                              !.slope = m, !._is_linear = TRUE,
                              !.center = mean([k \in 1..Cardinality(top) |->
                                                 params[SetToSeq(top)[k]]])]

\* FuzzyFunc._build_template(template_name) on the object self
_build_template(self, template_name) ==
    IF template_name \notin DOMAIN templates
    THEN [self EXCEPT !.error = KeyError(template_name)]
    ELSE IF template_name = "tsk"
    THEN [self EXCEPT !.fn_type = template_name, !.center = self.params[1]]
    ELSE _build_generic([self EXCEPT !.fn_type = template_name],
                        Ints(templates[template_name]))

\* FuzzyFunc(name, params, membership) for a template name
FuzzyFunc(name, params, template) == _build_template(NewFunc(name, params), template)

\* FuzzyFunc(name, params, membership) for a list of membership values
FuzzyFuncGeneric(name, params, memb_vals) ==
    LET fn == _build_generic(NewFunc(name, params), memb_vals) IN
    IF fn.error = NoError THEN [fn EXCEPT !.fn_type = "generic"] ELSE fn

\* the first segment for every a above the first parameter
searchsortedFirst(params, a) ==
    IF \E i \in 1..Len(params) : FLt(params[i], a) THEN 1 ELSE 0

\* np.searchsorted(params, a), side "left": how many parameters are below a
searchsorted(params, a) == Cardinality({i \in 1..Len(params) : FLt(params[i], a)})

\* the sub-function __create_linear_subfunctions builds for an index,
\* applied to a
SubFn(fn, ind, a) ==
    LET y == fn.memb_vals
        params == fn.params
    IN IF ind = 0 THEN y[1]
       ELSE IF ind = Len(params) THEN y[Len(y)]
       ELSE FAdd(FMul(fn.slope[ind], FSub(a, params[ind])), y[ind])

\* FuzzyFunc.__call__(a) for a scalar float: the error raised, or the
\* membership
FuzzyFunc_call(fn, a) ==
    IF fn.fn_type = "tsk"
    THEN [error |-> NotImplementedError(fn.name), value |-> nan]
    ELSE [error |-> NoError, value |-> SubFn(fn, searchsorted(fn.params, a), a)]

\* membfunc.py: MembFunc(name, params, membership) for a list of membership
\* values; the class differs from FuzzyFunc in the fn_type it stores
MembFuncGeneric(name, params, memb_vals) ==
    LET fn == _build_generic(NewFunc(name, params), memb_vals) IN
    IF fn.error = NoError THEN [fn EXCEPT !.fn_type = "custom"] ELSE fn

\* membfunc.py: MembFunc.__call__(a) for a scalar: for a TSK output function
\* the raise statement calls the constant NotImplemented, which is not
\* callable, so what is raised is a TypeError
MembFunc_call(fn, a) ==
    IF fn.fn_type = "tsk"
    THEN [error |-> TypeError("NotImplemented"), value |-> nan]
    ELSE [error |-> NoError, value |-> SubFn(fn, searchsorted(fn.params, a), a)]

\* MembGroup(name, xmin, xmax, fns): fns is a dict from function name to
\* function, domain the range used in Mamdani evaluation
MembGroup(name, xmin, xmax, fns) ==
    [name |-> name,
     fns |-> [fn_name \in {f.name : f \in fns} |-> CHOOSE f \in fns : f.name = fn_name],
     domain |-> <<xmin, xmax>>]

\* MembGroupset(source) for a list of groups: a dict from group name to group
MembGroupset(source) ==
    [group_name \in {g.name : g \in source} |->
        CHOOSE g \in source : g.name = group_name]

\* The groupset the callers of rule.evaluate and of the engines hold:
\* MembGroupset.groups, a dict from group name to group.  It has no group
\* "q", group "y" has no function "hi", and "k" of group "y" is a TSK output
\* function; "temperature" and "heater" are the groups of the heater
\* scenario.
Groupset ==
    MembGroupset({
        MembGroup("x", AsFloat(0), AsFloat(4),
                  {FuzzyFunc("lo", Ints(<<0, 4>>), "leftedge"),
                   FuzzyFunc("hi", Ints(<<0, 4>>), "rightedge")}),
        MembGroup("y", AsFloat(0), AsFloat(4),
                  {FuzzyFunc("lo", Ints(<<1, 3>>), "leftedge"),
                   FuzzyFunc("k", Ints(<<2>>), "tsk")}),
        MembGroup("z", AsFloat(0), AsFloat(4),
                  {FuzzyFunc("lo", Ints(<<0, 2, 4>>), "triangular"),
                   FuzzyFunc("hi", Ints(<<0, 4>>), "rightedge")}),
        MembGroup("temperature", AsFloat(0), AsFloat(100),
                  {FuzzyFunc("cold", Ints(<<30, 40>>), "leftedge"),
                   FuzzyFunc("warm", Ints(<<30, 40, 60, 70>>), "trapezoidal"),
                   FuzzyFunc("hot", Ints(<<60, 70>>), "rightedge")}),
        MembGroup("heater", AsFloat(0), AsFloat(1),
                  {FuzzyFunc("off", Tenths(<<1, 2>>), "leftedge"),
                   FuzzyFunc("medium", Tenths(<<1, 2, 8, 9>>), "trapezoidal"),
                   FuzzyFunc("on", Tenths(<<8, 9>>), "rightedge")})})

-----------------------------------------------------------------------------
(* rules/fuzzyrule.py: evaluating a rule *)

\* the KeyError evaluate raises in place of the one it caught
RuleKeyErrorFn(antecedent) == KeyError(antecedent.fn_name)

RuleKeyError(antecedent) == KeyError(antecedent.group_name)

\* the body of the try block for one antecedent: x[group_name], then
\* _Antecedent.eval: groupset[group_name][fn_name](x); each of the three
\* subscripts raises KeyError for a missing key
TryAntecedent(antecedent, x, groupset) ==
    IF antecedent.group_name \notin DOMAIN x
    THEN [error |-> KeyError(antecedent.group_name), value |-> nan]
    ELSE IF antecedent.group_name \notin DOMAIN groupset
    THEN [error |-> KeyError(antecedent.group_name), value |-> nan]
    ELSE IF antecedent.fn_name \notin DOMAIN groupset[antecedent.group_name].fns
    THEN [error |-> KeyError(antecedent.fn_name), value |-> nan]
    ELSE FuzzyFunc_call(groupset[antecedent.group_name].fns[antecedent.fn_name],
                        AsFloat(x[antecedent.group_name]))

\* the update of prev_ms by one antecedent; prev_ms is <<>> for None
UpdateSwapped(prev_ms, antecedent, membership) ==
    IF prev_ms = <<>> THEN <<membership>>
    ELSE IF antecedent.is_and THEN <<maximum(prev_ms[1], membership)>>
    ELSE <<minimum(prev_ms[1], membership)>>

Update(prev_ms, antecedent, membership) ==
    IF prev_ms = <<>> THEN <<membership>>
    ELSE IF antecedent.is_and THEN <<minimum(prev_ms[1], membership)>>
    ELSE <<maximum(prev_ms[1], membership)>>

Raised(err) ==
    [kind |-> "raise", error |-> err, group |-> None, fn |-> None, strength |-> 0]

\* the loop of evaluate over the antecedents from the i-th on, and the
\* statements after it
RECURSIVE EvaluateLoop(_, _, _, _, _)
EvaluateLoop(self, x, groupset, i, prev_ms) ==
    IF i > Len(self.antecedents)
    THEN IF prev_ms = <<>> THEN Raised(AttributeError("size"))
         ELSE IF self.consequent = <<>> THEN Raised(AttributeError("group_name"))
         ELSE [kind |-> "return", error |-> NoError,
               group |-> self.consequent[1].group_name,
               fn |-> self.consequent[1].fn_name,
               strength |-> prev_ms[1]]
    ELSE LET antecedent == self.antecedents[i]
             After(m) ==
                 IF m.error.type = "KeyError" THEN Raised(RuleKeyError(antecedent))
                 ELSE IF m.error # NoError THEN Raised(m.error)
                 ELSE EvaluateLoop(self, x, groupset, i + 1,
                                   Update(prev_ms, antecedent, m.value))
         IN After(TryAntecedent(antecedent, x, groupset))

\* FuzzyRule.evaluate(x, groupset)
evaluate(self, x, groupset) == EvaluateLoop(self, x, groupset, 1, <<>>)

-----------------------------------------------------------------------------
(* fis/fis.py *)

\* FIS(groupset, ruleset): the object constructed
FIS(groupset, ruleset) == [groupset |-> groupset, ruleset |-> ruleset]

\* what an engine method raised
FisRaised(err) == [error |-> err, out |-> <<>>]

\* the first loop with every rule's strength stored over what an earlier rule
\* with the same consequent has left
RECURSIVE OutputsLoopOverwrite(_, _, _, _)
OutputsLoopOverwrite(self, x, i, outputs) ==
    IF i > Len(self.ruleset.rules) THEN [error |-> NoError, out |-> outputs]
    ELSE LET r == evaluate(self.ruleset.rules[i], x, self.groupset) IN
         IF r.kind = "raise" THEN FisRaised(r.error)
         ELSE LET d0 == IF r.group \in DictKeySet(outputs)
                        THEN outputs ELSE DictSet(outputs, r.group, <<>>)
                  g1 == DictSet(DictGet(d0, r.group), r.fn, r.strength)
              IN OutputsLoopOverwrite(self, x, i + 1, DictSet(d0, r.group, g1))

\* the first loop of eval_membership over the rules from the i-th on, with
\* outputs for its all_outputs: outputs[group][fn] is set by the first rule
\* with that consequent and added to by the later ones
RECURSIVE OutputsLoop(_, _, _, _)
OutputsLoop(self, x, i, outputs) ==
    IF i > Len(self.ruleset.rules) THEN [error |-> NoError, out |-> outputs]
    ELSE LET Save(r, g) ==
                 IF r.fn \notin DictKeySet(g)
                 THEN DictSet(g, r.fn, r.strength)
                 ELSE DictSet(g, r.fn, FAdd(DictGet(g, r.fn), r.strength))
             Group(r, d0) ==
                 OutputsLoop(self, x, i + 1,
                             DictSet(d0, r.group, Save(r, DictGet(d0, r.group))))
             After(r) ==
                 IF r.kind = "raise" THEN FisRaised(r.error)
                 ELSE Group(r, IF r.group \in DictKeySet(outputs)
                               THEN outputs ELSE DictSet(outputs, r.group, <<>>))
         IN After(evaluate(self.ruleset.rules[i], x, self.groupset))

\* the second loop of eval_membership for one group: every membership
\* divided by the sum over the functions of the group
NormalizeKeep(group_outputs) == group_outputs

Normalize(group_outputs) ==
    LET sums == FSum(DictValues(group_outputs)) IN
    [i \in 1..Len(group_outputs) |->
        [k |-> group_outputs[i].k, v |-> FDiv(group_outputs[i].v, sums)]]

\* FIS.eval_membership(x)
FIS_eval_membership(self, x) ==
    LET After(r) ==
            IF r.error # NoError THEN r
            ELSE [error |-> NoError,
                  out |-> [i \in 1..Len(r.out) |->
                              [k |-> r.out[i].k, v |-> Normalize(r.out[i].v)]]]
    IN After(OutputsLoop(self, x, 1, <<>>))

\* the loop of convert_to_tsk over the functions of one group from the i-th
\* on: the error of the lookup self.groupset[group_name][fn_name], or top
\* and bot
RECURSIVE TskLoop(_, _, _, _, _, _)
TskLoop(self, group_name, group_memberships, i, top, bot) ==
    IF i > Len(group_memberships) THEN [error |-> NoError, top |-> top, bot |-> bot]
    ELSE LET fn_name == group_memberships[i].k
             fn_memberships == group_memberships[i].v
         IN IF group_name \notin DOMAIN self.groupset
            THEN [error |-> KeyError(group_name), top |-> top, bot |-> bot]
            ELSE IF fn_name \notin DOMAIN self.groupset[group_name].fns
            THEN [error |-> KeyError(fn_name), top |-> top, bot |-> bot]
            ELSE LET tsk_val == self.groupset[group_name].fns[fn_name].center IN
                 TskLoop(self, group_name, group_memberships, i + 1,
                         FAdd(top, FMul(fn_memberships, tsk_val)),
                         FAdd(bot, fn_memberships))

\* the sum of the memberships in place of the quotient
TskQuotientUnweighted(group_name, top, bot) ==
    [error |-> NoError, value |-> bot]

\* top / bot in convert_to_tsk.  The memberships eval_membership returns are
\* numpy floats, so the division is numpy's: a zero bot gives nan or inf and
\* a warning, and the except clause for ZeroDivisionError is never entered.
TskQuotient(group_name, top, bot) ==
    [error |-> NoError, value |-> FDiv(top, bot)]

\* the loop of convert_to_tsk over the groups from the i-th on
RECURSIVE TskGroups(_, _, _, _)
TskGroups(self, memberships, i, outputs_tsk) ==
    IF i > Len(memberships) THEN [error |-> NoError, out |-> outputs_tsk]
    ELSE LET group_name == memberships[i].k
             Save(q) ==
                 IF q.error # NoError THEN FisRaised(q.error)
                 ELSE TskGroups(self, memberships, i + 1,
                                DictSet(outputs_tsk, group_name, q.value))
             After(t) ==
                 IF t.error # NoError THEN FisRaised(t.error)
                 ELSE Save(TskQuotient(group_name, t.top, t.bot))
         IN After(TskLoop(self, group_name, memberships[i].v, 1,
                          AsFloat(0), AsFloat(0)))

\* FIS.convert_to_tsk(memberships)
convert_to_tsk(self, memberships) == TskGroups(self, memberships, 1, <<>>)

\* FIS.eval_tsk(x)
FIS_eval_tsk(self, x) ==
    LET After(membership_outputs) ==
            IF membership_outputs.error # NoError THEN membership_outputs
            ELSE convert_to_tsk(self, membership_outputs.out)
    IN After(FIS_eval_membership(self, x))

\* np.linspace(start, stop, num) for num >= 2
linspace(start, stop, num) ==
    [i \in 1..num |->
        FAdd(start, FDiv(FMul(AsFloat(i - 1), FSub(stop, start)), AsFloat(num - 1)))]

\* the loop of convert_to_mamdani over the functions of one group from the
\* i-th on: the error of group[fn_name](domain), or the codomain
RECURSIVE CodomainLoop(_, _, _, _, _)
CodomainLoop(group, group_memberships, domain, i, codomain) ==
    IF i > Len(group_memberships) THEN [error |-> NoError, codomain |-> codomain]
    ELSE LET fn_name == group_memberships[i].k
             fn_alpha == group_memberships[i].v
         IN IF fn_name \notin DOMAIN group.fns
            THEN [error |-> KeyError(fn_name), codomain |-> codomain]
            ELSE IF group.fns[fn_name].fn_type = "tsk"
            THEN [error |-> NotImplementedError(fn_name), codomain |-> codomain]
            ELSE LET Clip(fn_vals) ==
                         [j \in 1..Len(domain) |-> minimum(fn_vals[j], fn_alpha)]
                     Save(vals) ==
                         CodomainLoop(group, group_memberships, domain, i + 1,
                             [j \in 1..Len(domain) |-> maximum(codomain[j], vals[j])])
                 IN Save(Clip([j \in 1..Len(domain) |->
                                  FuzzyFunc_call(group.fns[fn_name], domain[j]).value]))

\* the loop of convert_to_mamdani over the groups from the i-th on
RECURSIVE MamdaniGroups(_, _, _, _, _)
MamdaniGroups(self, memberships, num_points, i, outputs) ==
    IF i > Len(memberships) THEN [error |-> NoError, out |-> outputs]
    ELSE LET group_name == memberships[i].k IN
         IF group_name \notin DOMAIN self.groupset THEN FisRaised(KeyError(group_name))
         ELSE LET group == self.groupset[group_name]
                  Save(domain, c) ==
                      IF c.error # NoError THEN FisRaised(c.error)
                      ELSE MamdaniGroups(self, memberships, num_points, i + 1,
                               DictSet(outputs, group_name,
                                       [domain |-> domain, codomain |-> c.codomain]))
                  After(domain) ==
                      Save(domain,
                           CodomainLoop(group, memberships[i].v, domain, 1,
                                        [j \in 1..num_points |-> AsFloat(0)]))
              IN After(linspace(group.domain[1], group.domain[2], num_points))

\* FIS.convert_to_mamdani(memberships, num_points)
convert_to_mamdani(self, memberships, num_points) ==
    MamdaniGroups(self, memberships, num_points, 1, <<>>)

\* FIS.eval_mamdani(x, num_points)
FIS_eval_mamdani(self, x, num_points) ==
    LET After(membership_outputs) ==
            IF membership_outputs.error # NoError THEN membership_outputs
            ELSE convert_to_mamdani(self, membership_outputs.out, num_points)
    IN After(FIS_eval_membership(self, x))

\* FIS.defuzz_mamdani((domain, codomains)) for one codomain: the centre of
\* mass; the division is numpy's and raises nothing
defuzz_mamdani(mamdani_output) ==
    LET top == FSum([j \in 1..Len(mamdani_output.domain) |->
                        FMul(mamdani_output.codomain[j], mamdani_output.domain[j])])
        bot == FSum(mamdani_output.codomain)
    IN [error |-> NoError, value |-> FDiv(top, bot)]

-----------------------------------------------------------------------------
(* The rule texts and input mappings callers hand to FuzzyRule and evaluate *)

\* the clauses of the generated sentences: (group, function)
AnteClauses ==
    {<<"x", "lo">>, <<"x", "hi">>, <<"y", "lo">>, <<"y", "hi">>,
     <<"y", "k">>, <<"q", "lo">>}

ClauseWords(c) == <<c[1], "is", c[2]>>

\* clause ((and|or) clause)* with n clauses
RECURSIVE Bodies(_)
Bodies(n) ==
    IF n = 1 THEN {ClauseWords(c) : c \in AnteClauses}
    ELSE {b \o <<conn>> \o ClauseWords(c) :
              b \in Bodies(n - 1), conn \in {"and", "or"}, c \in AnteClauses}

\* the sentences of the grammar with n antecedent clauses
SentencesOf(n) == {<<"if">> \o b \o <<"then", "z", "is", "hi">> : b \in Bodies(n)}

Sentences == UNION {SentencesOf(n) : n \in 1..MaxClauses}

\* the sentences the malformed and the mixed-case texts are made from
ShortSentences == UNION {SentencesOf(n) : n \in 1..Min(2, MaxClauses)}

\* a text with its i-th word left out
Delete(t, i) == SubSeq(t, 1, i - 1) \o SubSeq(t, i + 1, Len(t))

\* a spelling of the word that str.lower() takes back to it
Upper(word) ==
    CASE word = "if" -> "IF"
      [] word = "and" -> "AND"
      [] word = "or" -> "Or"
      [] word = "is" -> "Is"
      [] word = "then" -> "Then"
      [] word = "x" -> "X"
      [] word = "lo" -> "Lo"
      [] OTHER -> word

\* every text a caller constructs a rule from: sentences, sentences with
\* another consequent clause, sentences in mixed case (every word that has
\* another spelling, or one word only), sentences that open
\* with "and" in place of "if", sentences with one word left out, and
\* sentences with words after the consequent clause
RuleTexts ==
    Sentences
    \cup {<<"if">> \o b \o <<"then">> \o ClauseWords(c) :
             b \in Bodies(1), c \in {<<"y", "lo">>, <<"x", "hi">>}}
    \cup {[i \in 1..Len(t) |-> Upper(t[i])] : t \in ShortSentences}
    \cup UNION {{[t EXCEPT ![i] = Upper(t[i])] : i \in 1..Len(t)} : t \in SentencesOf(1)}
    \cup {<<"and">> \o Tail(t) : t \in Sentences}
    \cup UNION {{Delete(t, i) : i \in 1..Len(t)} : t \in ShortSentences}
    \cup {t \o e : t \in ShortSentences,
                   e \in {<<"x">>, <<"and", "z", "is", "lo">>}}

\* the input mappings handed to evaluate: a value for some of the groups
RuleInputVals == [x |-> {1, 3}, y |-> {2}, q |-> {0}]

RuleInputs ==
    UNION {{m \in [S -> 0..3] : \A g \in S : m[g] \in RuleInputVals[g]} :
               S \in SUBSET DOMAIN RuleInputVals}

-----------------------------------------------------------------------------
(* Constructing and evaluating one rule *)

\* what no operation on a rule changes
netSide == <<rulesets, nodes, roots, node_names, input_names, output_names, pc,
             call, error, ret, fn_type, inputs, all_inputs, all_outputs, root_i,
             stack, trace, first, fisVars, funcVars>>

RuleInit ==
    /\ NetInit
    /\ FisIdle
    /\ FuncIdle
    /\ rule_text \in RuleTexts
    /\ rule = NoRule
    /\ rule_x = EmptyMap
    /\ rule_ret = NoRuleRet

\* rule = FuzzyRule(rule_text)
ReadRule ==
    /\ rule_ret.kind = None
    /\ rule' = FuzzyRule(rule_text)
    /\ rule_ret' = [NoRuleRet EXCEPT !.kind = "constructed"]
    /\ UNCHANGED <<rule_text, rule_x, netSide>>

\* rule.evaluate(x, groupset)
Evaluate(x) ==
    /\ rule_ret.kind = "constructed"
    /\ rule_x' = x
    /\ rule_ret' = evaluate(rule, x, Groupset)
    /\ UNCHANGED <<rule_text, rule, netSide>>

NextRule ==
    \/ ReadRule
    \/ \E x \in RuleInputs : Evaluate(x)

SpecRule == RuleInit /\ [][NextRule]_vars

-----------------------------------------------------------------------------
(* Notions the properties of rules are stated with *)

Keywords == {"if", "and", "or", "is", "then"}

\* the text is a sentence of the grammar
\*     rule := "if" clause (("and"|"or") clause)* "then" clause
\*     clause := group "is" function
\* with the words compared as str.lower() leaves them
IsSentence(t) ==
    LET w == [i \in 1..Len(t) |-> Lower(t[i])] IN
    /\ Len(w) >= 8
    /\ Len(w) % 4 = 0
    /\ \A i \in 1..Len(w) :
          CASE i = 1 -> w[i] = "if"
            [] i = Len(w) - 3 -> w[i] = "then"
            [] i % 4 = 1 /\ i # 1 /\ i # Len(w) - 3 -> w[i] \in {"and", "or"}
            [] i % 4 = 3 -> w[i] = "is"
            [] OTHER -> w[i] \notin Keywords

Evaluated == rule_ret.kind \in {"return", "raise"}

Antes == rule.antecedents

\* one of the three lookups made for the antecedent has no entry
LookupFails(a) ==
    \/ a.group_name \notin DOMAIN rule_x
    \/ a.group_name \notin DOMAIN Groupset
    \/ a.fn_name \notin DOMAIN Groupset[a.group_name].fns

\* the antecedent's function is found and is a TSK output function
IsTsk(a) ==
    ~LookupFails(a) /\ Groupset[a.group_name].fns[a.fn_name].fn_type = "tsk"

\* the membership of the i-th antecedent
MembershipOf(i) ==
    FuzzyFunc_call(Groupset[Antes[i].group_name].fns[Antes[i].fn_name],
                   AsFloat(rule_x[Antes[i].group_name])).value

\* the accumulator after the first k antecedents, folded from the left
RECURSIVE Accumulator(_)
Accumulator(k) ==
    IF k = 1 THEN MembershipOf(1)
    ELSE IF Antes[k].is_and
         THEN (IF FLt(MembershipOf(k), Accumulator(k - 1))
               THEN MembershipOf(k) ELSE Accumulator(k - 1))
    ELSE (IF FLt(Accumulator(k - 1), MembershipOf(k))
          THEN MembershipOf(k) ELSE Accumulator(k - 1))

-----------------------------------------------------------------------------
(* C8 *)

\* C8: constructing a FuzzyRule from a text that is not a sentence of the
\* grammar fails with a parse error: a rule object is constructed from
\* sentences only.
C8_MalformedRejected == rule_ret.kind # None => IsSentence(rule_text)

-----------------------------------------------------------------------------
(* C9 *)

\* C9: evaluate folds the memberships of the antecedents from the left with
\* no precedence: the first seeds the accumulator whatever its flag, a later
\* "and" takes the minimum and a later "or" the maximum, and the strength
\* returned is the last accumulator, with the consequent's group and
\* function name; it returns whenever there is an antecedent and a
\* consequent and no antecedent's lookup or function fails.
C9_LeftToRightFold ==
    Evaluated =>
        /\ rule_ret.kind = "return" =>
              /\ Len(Antes) >= 1
              /\ rule_ret.strength = Accumulator(Len(Antes))
              /\ rule_ret.group = rule.consequent[1].group_name
              /\ rule_ret.fn = rule.consequent[1].fn_name
        /\ (/\ Len(Antes) >= 1
            /\ rule.consequent # <<>>
            /\ \A i \in 1..Len(Antes) : ~LookupFails(Antes[i]) /\ ~IsTsk(Antes[i]))
              => rule_ret.kind = "return"

\* a rule "A or B and C" whose first antecedent carries the "and" flag,
\* evaluated to a strength that differs from the one "and" binding tighter
\* than "or" gives
C9_Witness ==
    /\ rule_ret.kind = "return"
    /\ Len(Antes) = 3
    /\ Antes[1].is_and /\ ~Antes[2].is_and /\ Antes[3].is_and
    /\ rule_ret.strength #
           maximum(MembershipOf(1), minimum(MembershipOf(2), MembershipOf(3)))

-----------------------------------------------------------------------------
(* C10 *)

\* C10: when evaluate comes to an antecedent (no earlier antecedent raised)
\* and the input mapping has no entry for its group, or the groupset no such
\* group, or the group no function of its function name, evaluate raises a
\* KeyError naming that antecedent's group; and whenever a lookup of any
\* antecedent fails, no firing strength is returned.
C10_LookupErrorNamesGroup ==
    Evaluated =>
        \A i \in 1..Len(Antes) :
            LookupFails(Antes[i]) =>
                /\ rule_ret.kind = "raise"
                /\ (\A j \in 1..(i - 1) : ~LookupFails(Antes[j]) /\ ~IsTsk(Antes[j]))
                      => rule_ret.error = KeyError(Antes[i].group_name)

\* an evaluation that came, after an antecedent that evaluated, to one whose
\* group is in the inputs and in the groupset but lacks the function
C10_Witness ==
    /\ rule_ret.kind = "raise"
    /\ Len(Antes) >= 2
    /\ ~LookupFails(Antes[1]) /\ ~IsTsk(Antes[1])
    /\ Antes[2].group_name \in DOMAIN rule_x \cap DOMAIN Groupset
    /\ Antes[2].fn_name \notin DOMAIN Groupset[Antes[2].group_name].fns
    /\ rule_ret.error = KeyError(Antes[2].group_name)

-----------------------------------------------------------------------------
(* Constructing a ruleset and an inference system, and evaluating it *)

MaxRules == 2

\* the rule texts the generated rule lists are made from; the first and the
\* fourth share a consequent function, and "k" of group "y" is a TSK function
FisTexts ==
    {<<"if", "x", "is", "lo", "then", "z", "is", "lo">>,
     <<"if", "x", "is", "hi", "then", "z", "is", "hi">>,
     <<"if", "x", "is", "lo", "and", "y", "is", "lo", "then", "z", "is", "hi">>,
     <<"if", "y", "is", "lo", "then", "z", "is", "lo">>,
     <<"if", "x", "is", "hi", "then", "y", "is", "k">>,
     <<"if", "x", "is", "lo", "or", "y", "is", "lo", "then", "y", "is", "lo">>}

\* the lists of n of these texts
RECURSIVE RuleLists(_)
RuleLists(n) ==
    IF n = 0 THEN {<<>>}
    ELSE {Append(l, t) : l \in RuleLists(n - 1), t \in FisTexts}

\* the rules of the heater scenario
HeaterRules ==
    << <<"if", "temperature", "is", "cold", "then", "heater", "is", "on">>,
       <<"if", "temperature", "is", "warm", "then", "heater", "is", "medium">>,
       <<"if", "temperature", "is", "hot", "then", "heater", "is", "off">> >>

\* every list of rule texts a caller constructs a ruleset from: the generated
\* lists, the heater rules, the first of them alone, three rules of which
\* two share a consequent function, and lists with a text that has no
\* consequent clause
FisSources ==
    UNION {RuleLists(n) : n \in 1..MaxRules}
    \cup {HeaterRules, <<HeaterRules[1]>>,
          << <<"if", "x", "is", "lo", "then", "z", "is", "lo">>,
             <<"if", "y", "is", "lo", "then", "z", "is", "lo">>,
             <<"if", "x", "is", "hi", "then", "z", "is", "hi">> >>,
          << <<"if", "x", "is", "lo">> >>,
          << <<"if", "x", "is", "lo", "then", "z", "is", "lo">>,
             <<"if", "x", "is", "hi", "then", "z">> >>}

\* the input mappings callers hold
FisInputs ==
    {[x |-> vx, y |-> vy, temperature |-> vt] :
        vx \in {0, 1, 4}, vy \in {1, 2, 3}, vt \in {35, 65}}

\* the values of num_points handed to eval_mamdani
NumPoints == {2, 3}

FisInit ==
    /\ NetInit
    /\ RuleIdle
    /\ FuncIdle
    /\ fis_source \in FisSources
    /\ fis = NoFis
    /\ fis_x \in FisInputs
    /\ fis_ret = NoFisRet

\* what no operation on an inference system changes
fisFrame == <<rulesets, nodes, roots, node_names, input_names, output_names, pc,
              call, error, ret, fn_type, inputs, all_inputs, all_outputs, root_i,
              stack, trace, first, rule_text, rule, rule_x, rule_ret, funcVars>>

\* fis = FIS(groupset, FuzzyRuleset(fis_source))
NewFis ==
    /\ fis_ret.op = None
    /\ LET After(ruleset) ==
               IF ruleset.error # NoError
               THEN /\ fis_ret' = [op |-> "FuzzyRuleset", error |-> ruleset.error,
                                   out |-> <<>>]
                    /\ UNCHANGED fis
               ELSE /\ fis' = FIS(Groupset, ruleset)
                    /\ fis_ret' = [op |-> "FIS", error |-> NoError, out |-> <<>>]
       IN After(FuzzyRuleset(fis_source))
    /\ UNCHANGED <<fis_source, fis_x, fisFrame>>

\* the engine method of that name applied to x
FisCall(self, op, x, num_points) ==
    CASE op = "eval_membership" -> FIS_eval_membership(self, x)
      [] op = "eval_tsk" -> FIS_eval_tsk(self, x)
      [] op = "eval_mamdani" -> FIS_eval_mamdani(self, x, num_points)

\* fis.eval_membership(x), fis.eval_tsk(x) or fis.eval_mamdani(x, num_points)
\* for the caller's x
FisEval(op, num_points) ==
    /\ fis # NoFis
    /\ LET After(r) == [op |-> op, num_points |-> num_points,
                        error |-> r.error, out |-> r.out]
       IN fis_ret' = After(FisCall(fis, op, fis_x, num_points))
    /\ UNCHANGED <<fis_source, fis, fis_x, fisFrame>>

\* fis.defuzz_mamdani(out[group_name]) on what eval_mamdani has returned
Defuzz(group_name) ==
    /\ fis_ret.op = "eval_mamdani"
    /\ fis_ret.error = NoError
    /\ group_name \in DictKeySet(fis_ret.out)
    /\ LET After(r) ==
               [op |-> "defuzz_mamdani", num_points |-> fis_ret.num_points,
                error |-> r.error,
                out |-> [group |-> group_name, value |-> r.value,
                         of |-> DictGet(fis_ret.out, group_name)]]
       IN fis_ret' = After(defuzz_mamdani(DictGet(fis_ret.out, group_name)))
    /\ UNCHANGED <<fis_source, fis, fis_x, fisFrame>>

NextFis ==
    \/ NewFis
    \/ FisEval("eval_membership", 0)
    \/ FisEval("eval_tsk", 0)
    \/ \E num_points \in NumPoints : FisEval("eval_mamdani", num_points)
    \/ \E group_name \in DOMAIN Groupset : Defuzz(group_name)

SpecFis == FisInit /\ [][NextFis]_vars

-----------------------------------------------------------------------------
(* Notions the properties of rulesets and inference systems are stated with *)

\* a ruleset and an inference system were constructed from fis_source
Built == fis # NoFis

\* the position of "then" in a sentence
ThenAt(t) == CHOOSE i \in 1..Len(t) : t[i] = "then"

\* the group names of the antecedent clauses of a sentence: the words that
\* follow "if", "and" and "or" before "then"
AnteGroupsOf(t) ==
    {t[i + 1] : i \in {j \in 1..(ThenAt(t) - 1) : t[j] \in {"if", "and", "or"}}}

\* the group name of the consequent clause of a sentence
ConsGroupOf(t) == t[ThenAt(t) + 1]

-----------------------------------------------------------------------------
(* C11 *)

\* C11: for every ruleset built from a list of rules, input_names is the set
\* of the group names of all antecedents of all its rules and output_names
\* the set of the group names of all its rules' consequents; the single rule
\* "if temperature is cold then heater is on" gives {temperature} and
\* {heater}.
C11_RulesetNames ==
    Built =>
        /\ fis.ruleset.input_names =
               UNION {AnteGroupsOf(fis_source[i]) : i \in 1..Len(fis_source)}
        /\ fis.ruleset.output_names =
               {ConsGroupOf(fis_source[i]) : i \in 1..Len(fis_source)}
        /\ fis_source = << <<"if", "temperature", "is", "cold",
                             "then", "heater", "is", "on">> >>
              => /\ fis.ruleset.input_names = {"temperature"}
                 /\ fis.ruleset.output_names = {"heater"}

\* a ruleset built from two rules with different consequent groups and
\* two antecedent groups between them
C11_Witness ==
    /\ Built
    /\ Len(fis_source) = 2
    /\ fis.ruleset.input_names = {"x", "y"}
    /\ fis.ruleset.output_names = {"z", "y"}

-----------------------------------------------------------------------------
(* C12 *)

\* eval_membership has returned a result for the caller's input
MembershipReturned ==
    /\ fis_ret.op = "eval_membership"
    /\ fis_ret.error = NoError

\* the firing strength of the i-th rule of the ruleset on the caller's input
Strength(i) == evaluate(fis.ruleset.rules[i], fis_x, fis.groupset).strength

\* the rules whose consequent is function f of group g, and those whose
\* consequent is any function of group g
RulesFor(g, f) ==
    {i \in 1..Len(fis.ruleset.rules) :
        /\ fis.ruleset.rules[i].consequent[1].group_name = g
        /\ fis.ruleset.rules[i].consequent[1].fn_name = f}

RulesOf(g) ==
    {i \in 1..Len(fis.ruleset.rules) :
        fis.ruleset.rules[i].consequent[1].group_name = g}

\* the sum of the firing strengths of a set of rules
TotalOf(is) == FSum([k \in 1..Cardinality(is) |-> Strength(SetToSeq(is)[k])])

\* C12: eval_membership adds the firing strengths of the rules that share an
\* output function and divides each function's total by the sum over all
\* functions of its output group; for every output group whose total firing
\* strength is not zero the returned memberships sum to 1 and each lies in
\* [0, 1].
C12_SumThenNormalize ==
    MembershipReturned =>
        \A i \in 1..Len(fis_ret.out) :
            LET g == fis_ret.out[i].k
                memb == fis_ret.out[i].v
            IN /\ \A j \in 1..Len(memb) :
                      memb[j].v = FDiv(TotalOf(RulesFor(g, memb[j].k)), TotalOf(RulesOf(g)))
               /\ TotalOf(RulesOf(g)) # AsFloat(0) =>
                      /\ FSum(DictValues(memb)) = AsFloat(1)
                      /\ \A j \in 1..Len(memb) :
                             FLe(AsFloat(0), memb[j].v) /\ FLe(memb[j].v, AsFloat(1))

\* two rules that share their output function fired with strengths that add
\* up to more than 1, and the membership returned for the function is 1
C12_Witness ==
    /\ MembershipReturned
    /\ Len(fis.ruleset.rules) = 2
    /\ fis.ruleset.rules[1].consequent = fis.ruleset.rules[2].consequent
    /\ FLt(AsFloat(0), Strength(1)) /\ FLt(AsFloat(0), Strength(2))
    /\ FLt(AsFloat(1), FAdd(Strength(1), Strength(2)))
    /\ DictValues(fis_ret.out[1].v) = <<AsFloat(1)>>

-----------------------------------------------------------------------------
(* C13 *)

\* an ordered dict of ordered dicts as a mapping group -> function -> value
AsMapping(out) ==
    [g \in DictKeySet(out) |->
        [f \in DictKeySet(DictGet(out, g)) |-> DictGet(DictGet(out, g), f)]]

\* the list of rule texts in the order a permutation of its indices gives
Permuted(source, perm) == [i \in 1..Len(source) |-> source[perm[i]]]

-----------------------------------------------------------------------------
(* C14 *)

\* the same evaluation call made a second time on the network has come to
\* its end
SecondDone == first # NoFirst /\ pc = "idle"

C14_FisKeepsState ==
    [][fis # NoFis => UNCHANGED <<fis, fis_x, fis_source>>]_vars

-----------------------------------------------------------------------------
(* C15 *)

\* the output groups of the ruleset for which no rule fired on the caller's
\* input: the firing strengths of all their functions sum to zero
ZeroGroups ==
    {g \in fis.ruleset.output_names : TotalOf(RulesOf(g)) = AsFloat(0)}

\* C15: whenever the firing strengths of all functions of an output group
\* sum to exactly zero, eval_tsk fails with a ZeroDivisionError that names
\* the group, and returns no value for the group.
C15_ZeroTotalRaises ==
    (fis_ret.op = "eval_tsk" /\ ZeroGroups # {}) =>
        \E g \in ZeroGroups : fis_ret.error = ZeroDivisionError(g)

-----------------------------------------------------------------------------
(* C16 *)

\* defuzz_mamdani was applied to a codomain whose values sum to zero
ZeroCodomain ==
    /\ fis_ret.op = "defuzz_mamdani"
    /\ FSum(fis_ret.out.of.codomain) = AsFloat(0)

\* C16: defuzz_mamdani surfaces a codomain whose values sum to zero as an
\* error, and never returns not-a-number for it.
C16_ZeroCodomainRaises ==
    ZeroCodomain =>
        /\ fis_ret.error # NoError
        /\ ~isnan(fis_ret.out.value)

-----------------------------------------------------------------------------
(* C17 *)

\* eval_tsk has returned a result for the caller's input
TskReturned ==
    /\ fis_ret.op = "eval_tsk"
    /\ fis_ret.error = NoError

\* the functions of group g that are consequents of rules, and those of them
\* whose summed firing strength is above zero
FnsOf(g) == {fis.ruleset.rules[i].consequent[1].fn_name : i \in RulesOf(g)}

Fired(g) == {f \in FnsOf(g) : FLt(AsFloat(0), TotalOf(RulesFor(g, f)))}

\* the representative value of function f of group g
CenterOf(g, f) == fis.groupset[g].fns[f].center

\* sum(w_f * center_f) over the functions of group g, with w_f the summed
\* firing strength of the rules whose consequent is f
WeightedCenters(g) ==
    FSum([k \in 1..Cardinality(FnsOf(g)) |->
             LET f == SetToSeq(FnsOf(g))[k] IN
             FMul(TotalOf(RulesFor(g, f)), CenterOf(g, f))])

\* C17: for every output group with non-zero total firing strength eval_tsk
\* returns sum(w_f * center_f) / sum(w_f) over the group's output functions,
\* w_f being the summed, not normalised, firing strength of the rules whose
\* consequent is f; the value lies between the smallest and the largest
\* center of the functions with w_f > 0.
C17_WeightedAverage ==
    TskReturned =>
        \A i \in 1..Len(fis_ret.out) :
            LET g == fis_ret.out[i].k
                v == fis_ret.out[i].v
            IN TotalOf(RulesOf(g)) # AsFloat(0) =>
                   /\ v = FDiv(WeightedCenters(g), TotalOf(RulesOf(g)))
                   /\ \E f \in Fired(g) : FLe(CenterOf(g, f), v)
                   /\ \E f \in Fired(g) : FLe(v, CenterOf(g, f))

\* a value returned for a group of which two functions with different centers
\* fired with different strengths, strictly between the two centers
C17_Witness ==
    /\ TskReturned
    /\ \E i \in 1..Len(fis_ret.out) :
           LET g == fis_ret.out[i].k
               v == fis_ret.out[i].v
           IN \E f1, f2 \in Fired(g) :
                  /\ TotalOf(RulesFor(g, f1)) # TotalOf(RulesFor(g, f2))
                  /\ FLt(CenterOf(g, f1), v) /\ FLt(v, CenterOf(g, f2))

-----------------------------------------------------------------------------
(* C18 *)

\* the heater scenario: the rules cold -> on, warm -> medium, hot -> off on
\* the groups temperature and heater of the groupset, and temperature = 35
HeaterAt35 ==
    /\ Built
    /\ fis_source = HeaterRules
    /\ fis_x.temperature = 35
    /\ fis_ret.error = NoError

\* the value eval_tsk has returned for the heater
HeaterValue == DictGet(fis_ret.out, "heater")

\* C18: in the heater scenario temperature = 35 gives eval_membership
\* heater.on = 0.5, heater.medium = 0.5 and heater.off = 0, and eval_tsk
\* gives the heater value 0.7: strictly between the representative values of
\* medium (0.5) and on (0.9), and as far from the one as from the other.
C18_HeaterScenario ==
    HeaterAt35 =>
        /\ fis_ret.op = "eval_membership" =>
               AsMapping(fis_ret.out) =
                   [heater |-> [on |-> F(1, 2), medium |-> F(1, 2), off |-> AsFloat(0)]]
        /\ fis_ret.op = "eval_tsk" =>
               /\ HeaterValue = F(7, 10)
               /\ FLt(CenterOf("heater", "medium"), HeaterValue)
               /\ FLt(HeaterValue, CenterOf("heater", "on"))
               /\ FSub(CenterOf("heater", "on"), HeaterValue)
                      = FSub(HeaterValue, CenterOf("heater", "medium"))

\* C18 as stated: the same memberships, and an eval_tsk value strictly
\* between the representative values of medium and on that is closer to the
\* one of on.
C18_HeaterCloserToOn ==
    HeaterAt35 =>
        /\ fis_ret.op = "eval_membership" =>
               AsMapping(fis_ret.out) =
                   [heater |-> [on |-> F(1, 2), medium |-> F(1, 2), off |-> AsFloat(0)]]
        /\ fis_ret.op = "eval_tsk" =>
               /\ FLt(CenterOf("heater", "medium"), HeaterValue)
               /\ FLt(HeaterValue, CenterOf("heater", "on"))
               /\ FLt(FSub(CenterOf("heater", "on"), HeaterValue),
                      FSub(HeaterValue, CenterOf("heater", "medium")))

\* eval_tsk has returned in the heater scenario at temperature = 35
C18_Witness ==
    /\ HeaterAt35
    /\ fis_ret.op = "eval_tsk"
    /\ DictKeySet(fis_ret.out) = {"heater"}

-----------------------------------------------------------------------------
(* Constructing a membership function and calling it *)

MaxParam == 3

\* the lists of n parameters, in any order and with repetitions
RECURSIVE ParamLists(_)
ParamLists(n) ==
    IF n = 0 THEN {<<>>}
    ELSE {Append(l, v) : l \in ParamLists(n - 1), v \in 0..MaxParam}

\* the lists of n membership values
RECURSIVE ValLists(_)
ValLists(n) ==
    IF n = 0 THEN {<<>>}
    ELSE {Append(l, v) : l \in ValLists(n - 1), v \in {AsFloat(0), F(1, 2), AsFloat(1)}}

\* the two classes of membership function of the package
FuncClasses == {"FuzzyFunc", "MembFunc"}

\* the arguments callers construct a function from: the class, and a
\* template name (one of the linear templates, "tsk", or a name that is no
\* template) with one to four parameters, or a list of membership values
\* with as many parameters, or with one more, or with a value above 1 or
\* below 0
FuncArgs ==
    {[cls |-> c, params |-> p, template |-> t, memb_vals |-> <<>>] :
        c \in FuncClasses,
        t \in {"leftedge", "rightedge", "triangular", "trapezoidal", "tsk", "bell"},
        p \in UNION {ParamLists(n) : n \in 1..4}}
    \cup UNION {{[cls |-> c, params |-> p, template |-> None, memb_vals |-> v] :
                    c \in FuncClasses, p \in ParamLists(n), v \in ValLists(n)} :
                 n \in 2..3}
    \cup {[cls |-> c, params |-> a.p, template |-> None, memb_vals |-> a.v] :
            c \in FuncClasses,
            a \in {[p |-> <<0, 1, 2>>, v |-> <<AsFloat(0), AsFloat(1)>>],
                   [p |-> <<0, 1>>, v |-> <<AsFloat(0), F(3, 2)>>],
                   [p |-> <<0, 1>>, v |-> <<F(0 - 1, 2), AsFloat(1)>>],
                   [p |-> <<0, 1, 2>>, v |-> <<AsFloat(0), AsFloat(2)>>]}}

\* the values functions are called with: every half from below the smallest
\* parameter to above the largest
FuncInputs == {F(k, 2) : k \in (0 - 1)..(2 * MaxParam + 1)}

FuncInit ==
    /\ NetInit
    /\ RuleIdle
    /\ FisIdle
    /\ func_args \in FuncArgs
    /\ func = NoFunc
    /\ func_a = <<>>
    /\ func_ret = NoFuncRet

\* what no operation on a membership function changes
funcFrame == <<rulesets, nodes, roots, node_names, input_names, output_names, pc,
               call, error, ret, fn_type, inputs, all_inputs, all_outputs, root_i,
               stack, trace, first, rule_text, rule, rule_x, rule_ret, fisVars>>

\* func = FuzzyFunc("f", params, membership), or MembFunc("f", params,
\* membership), whose constructor is the same for a template name
Construct ==
    /\ func_ret.kind = None
    /\ LET fn == IF func_args.template # None
                 THEN FuzzyFunc("f", Ints(func_args.params), func_args.template)
                 ELSE IF func_args.cls = "MembFunc"
                 THEN MembFuncGeneric("f", Ints(func_args.params), func_args.memb_vals)
                 ELSE FuzzyFuncGeneric("f", Ints(func_args.params), func_args.memb_vals)
       IN IF fn.error # NoError
          THEN /\ func_ret' = [kind |-> "raise", error |-> fn.error, value |-> <<>>]
               /\ UNCHANGED func
          ELSE /\ func' = fn
               /\ func_ret' = [kind |-> "constructed", error |-> NoError, value |-> <<>>]
    /\ UNCHANGED <<func_args, func_a, funcFrame>>

\* func(a)
Call(a) ==
    /\ func # NoFunc
    /\ LET r == IF func_args.cls = "MembFunc" THEN MembFunc_call(func, a)
                ELSE FuzzyFunc_call(func, a)
       IN func_ret' = [kind |-> "call", error |-> r.error, value |-> r.value]
    /\ func_a' = a
    /\ UNCHANGED <<func_args, func, funcFrame>>

NextFunc ==
    \/ Construct
    \/ \E a \in FuncInputs : Call(a)

SpecFunc == FuncInit /\ [][NextFunc]_vars

-----------------------------------------------------------------------------
(* C19 *)

LinearTemplates == {"leftedge", "rightedge", "triangular", "trapezoidal"}

\* the control points, as the caller gave them, are strictly increasing
StrictlyIncreasing(params) ==
    \A i \in 1..(Len(params) - 1) : params[i] < params[i + 1]

\* a function built from a linear template with strictly increasing control
\* points was called
TemplateCalled ==
    /\ func_ret.kind = "call"
    /\ func_args.template \in LinearTemplates
    /\ StrictlyIncreasing(func_args.params)

-----------------------------------------------------------------------------
(* C20 *)

\* a piecewise-linear function that was constructed without error was called
LinearCalled ==
    /\ func_ret.kind = "call"
    /\ func._is_linear

\* v lies between the membership values of the control points i and i + 1
Between(i, v) ==
    /\ FLe(minimum(func.memb_vals[i], func.memb_vals[i + 1]), v)
    /\ FLe(v, maximum(func.memb_vals[i], func.memb_vals[i + 1]))

\* C20: for every piecewise-linear function constructed without error and
\* every input (below the first control point, above the last, between two
\* or equal to one) the membership returned lies in [0, 1], and it is an
\* interpolation: the value at the first control point for inputs not above
\* it, the value at the last for inputs not below it, and otherwise a value
\* between those of two consecutive control points that enclose the input.
C20_MembershipInUnitInterval ==
    LinearCalled =>
        LET v == func_ret.value
            n == Len(func.params)
        IN /\ func_ret.error = NoError
           /\ FLe(AsFloat(0), v) /\ FLe(v, AsFloat(1))
           /\ \/ FLe(func_a, func.params[1]) /\ v = func.memb_vals[1]
              \/ FLe(func.params[n], func_a) /\ v = func.memb_vals[n]
              \/ \E i \in 1..(n - 1) :
                     /\ FLe(func.params[i], func_a)
                     /\ FLe(func_a, func.params[i + 1])
                     /\ Between(i, v)

\* a function with two equal control points of equal membership value, whose
\* segment between them has no slope, called between two other control
\* points and returning a value strictly between 0 and 1
C20_Witness ==
    /\ LinearCalled
    /\ \E i \in 1..Len(func.slope) : isnan(func.slope[i])
    /\ \E i \in 1..(Len(func.params) - 1) :
           FLt(func.params[i], func_a) /\ FLt(func_a, func.params[i + 1])
    /\ FLt(AsFloat(0), func_ret.value) /\ FLt(func_ret.value, AsFloat(1))

-----------------------------------------------------------------------------
(* C21 *)

\* the number of membership values of each linear template
TemplateArity(t) ==
    CASE t \in {"leftedge", "rightedge"} -> 2
      [] t = "triangular" -> 3
      [] t = "trapezoidal" -> 4

\* the construction was attempted with arguments that are not valid: a
\* membership value outside [0, 1], or a number of membership values (the
\* template's arity) that is not the number of control points
InvalidValues ==
    /\ func_ret.kind # None
    /\ \/ /\ func_args.template = None
          /\ \/ \E i \in 1..Len(func_args.memb_vals) :
                    \/ FLt(func_args.memb_vals[i], AsFloat(0))
                    \/ FLt(AsFloat(1), func_args.memb_vals[i])
             \/ Len(func_args.memb_vals) # Len(func_args.params)
       \/ /\ func_args.template \in LinearTemplates
          /\ TemplateArity(func_args.template) # Len(func_args.params)

\* the construction was attempted with a template name that is not in the
\* template table
UnknownTemplate ==
    /\ func_ret.kind # None
    /\ func_args.template # None
    /\ func_args.template \notin LinearTemplates \cup {"tsk"}

\* C21: constructing a piecewise-linear function raises a ValueError and
\* leaves no function object whenever a membership value is below 0 or above
\* 1, or the number of membership values (2 for leftedge and rightedge, 3 for
\* triangular, 4 for trapezoidal) is not the number of control points; and
\* constructing from a template name that is not in the template table
\* raises a KeyError at construction.
C21_InvalidConstructionFails ==
    /\ InvalidValues =>
           /\ func_ret.kind = "raise"
           /\ func_ret.error.type = "ValueError"
           /\ func = NoFunc
    /\ UnknownTemplate =>
           /\ func_ret.kind = "raise"
           /\ func_ret.error.type = "KeyError"
           /\ func = NoFunc

\* a custom function whose values are all in [0, 1] but fewer than its
\* control points was refused
C21_Witness ==
    /\ InvalidValues
    /\ func_args.template = None
    /\ Len(func_args.memb_vals) < Len(func_args.params)
    /\ \A i \in 1..Len(func_args.memb_vals) :
           FLe(AsFloat(0), func_args.memb_vals[i]) /\ FLe(func_args.memb_vals[i], AsFloat(1))
    /\ func_ret.kind = "raise"
    /\ func_ret.error = ValueError("shape")

-----------------------------------------------------------------------------
(* C22 *)

\* the membership values the construction uses: the caller's, or the
\* template's
ValuesGiven ==
    IF func_args.template = None THEN func_args.memb_vals
    ELSE Ints(templates[func_args.template])

\* the construction was attempted with values that pass validation and with
\* control points of which two are equal (which sorting makes consecutive)
EqualPoints ==
    /\ func_ret.kind # None
    /\ func_args.template \in LinearTemplates \cup {None}
    /\ ~InvalidValues
    /\ \E i, j \in 1..Len(func_args.params) :
           i # j /\ func_args.params[i] = func_args.params[j]

\* C22 (as the specification states it): constructing a piecewise-linear
\* function whose control points, once sorted, have two equal neighbours
\* raises a ZeroDivisionError (degenerate segment) and gives no function,
\* whatever the membership values at the two points are, equal values
\* included.
C22_EqualPointsRaise ==
    EqualPoints =>
        /\ func_ret.kind = "raise"
        /\ func_ret.error.type = "ZeroDivisionError"
        /\ func = NoFunc

\* what the code does: the error is raised exactly when some segment between
\* two equal sorted control points joins two different membership values;
\* when the values at every such pair are equal the function is constructed
C22_RaisesOnlyForDifferentValues ==
    EqualPoints =>
        LET params == sort(Ints(func_args.params))
            degenerate == \E i \in 1..(Len(params) - 1) :
                              /\ params[i] = params[i + 1]
                              /\ ValuesGiven[i] # ValuesGiven[i + 1]
        IN IF degenerate
           THEN func_ret.kind = "raise" /\ func_ret.error.type = "ZeroDivisionError"
           ELSE func_ret.kind # "raise" /\ func # NoFunc

-----------------------------------------------------------------------------
(* C23 *)

\* a function constructed from the "tsk" template was called
TskCalled ==
    /\ func_ret.kind = "call"
    /\ func.fn_type = "tsk"

\* C23 (as the specification states it): calling a TSK output function, of
\* either class, raises NotImplementedError for every input and every list
\* of coefficients, and returns no membership value.
C23_TskNeverAnswers ==
    TskCalled =>
        /\ func_ret.error.type = "NotImplementedError"
        /\ func_ret.value = nan

\* what the code does: the call of a TSK output function never returns a
\* value; a FuzzyFunc raises NotImplementedError, a MembFunc raises TypeError
C23_TskCallRaises ==
    TskCalled =>
        /\ func_ret.value = nan
        /\ func_ret.error.type =
               (IF func_args.cls = "FuzzyFunc" THEN "NotImplementedError" ELSE "TypeError")

\* under SpecRule: evaluating a rule one of whose antecedents names a TSK
\* function raises and returns no result; the error is NotImplementedError
\* unless the lookup of an earlier antecedent already failed
C23_RuleWithTskFails ==
    (Evaluated /\ \E i \in 1..Len(Antes) : IsTsk(Antes[i])) =>
        /\ rule_ret.kind = "raise"
        /\ (\A i \in 1..Len(Antes) : ~LookupFails(Antes[i])) =>
               rule_ret.error.type = "NotImplementedError"

\* under SpecFis: a Mamdani evaluation of a ruleset whose rules have a TSK
\* function as a consequent raises and returns no output
C23_MamdaniWithTskFails ==
    (/\ fis_ret.op = "eval_mamdani"
     /\ \E i \in 1..Len(fis.ruleset.rules) :
            LET c == fis.ruleset.rules[i].consequent[1] IN
            Groupset[c.group_name].fns[c.fn_name].fn_type = "tsk") =>
        /\ fis_ret.error # NoError
        /\ fis_ret.out = <<>>

-----------------------------------------------------------------------------
(* C24 *)

\* the words of the text as str.lower() leaves them
Words == [i \in 1..Len(rule_text) |-> Lower(rule_text[i])]

\* a rule was constructed from a sentence of the grammar (whose group and
\* function names are no keywords)
SentenceRead ==
    /\ rule_ret.kind # None
    /\ IsSentence(rule_text)

\* C24: for every sentence of the grammar whose names are no keywords, the
\* rule read has one antecedent per clause before "then", in the order of
\* the clauses, the k-th with the group and the function name of the k-th
\* clause and with is_and true exactly when the keyword before the clause is
\* "and" (false after "if" and after "or"); its consequent is the clause
\* after "then".
C24_ParsedAsWritten ==
    SentenceRead =>
        LET n == Len(Words) IN
        /\ Len(rule.antecedents) = (n \div 4) - 1
        /\ \A k \in 1..((n \div 4) - 1) :
               rule.antecedents[k] =
                   [group_name |-> Words[4 * k - 2],
                    fn_name |-> Words[4 * k],
                    is_and |-> (Words[4 * k - 3] = "and")]
        /\ rule.consequent =
               <<[group_name |-> Words[n - 2], fn_name |-> Words[n]]>>

\* a sentence with three clauses joined by "and" and then by "or" was read:
\* the second antecedent is a conjunction, the third is not
C24_Witness ==
    /\ SentenceRead
    /\ Len(rule.antecedents) = 3
    /\ Words[5] = "and" /\ Words[9] = "or"
    /\ rule.antecedents[2].is_and
    /\ ~rule.antecedents[3].is_and
    /\ rule.antecedents[1].group_name # rule.antecedents[2].group_name

-----------------------------------------------------------------------------
(* C25 *)

\* an evaluation call has ended, by returning or by raising, on a network
\* in which some node has a branch, with a value supplied for every group
\* req_inputs() names
EvalEnded ==
    /\ pc = "idle"
    /\ call.op \in {"eval_tsk", "eval_mamdani", "eval_membership"}
    /\ \E id \in NodeIds : BranchIds(id) # {}
    /\ Covers(inputs, req_inputs(Net))

\* C25 (as the specification states it): in every evaluation mode, the
\* Mamdani modes ("mam", and "raw-mam" for eval_membership without use_tsk)
\* included, each branch's result is converted to one scalar per output
\* group and merged, and an evaluation of a network with a branch and with
\* all required inputs supplied returns the roots' results; it does not
\* raise in the conversion step.
C25_EveryModeCompletes ==
    EvalEnded =>
        /\ error = NoError
        /\ ret.kind = "outputs"
        /\ \E i \in 1..Len(trace) : trace[i].ev = "merge"

\* what the code does: the TSK modes complete and merge each branch's
\* scalars; the Mamdani modes raise TypeError at the first branch's
\* conversion, with nothing merged and nothing returned
C25_MamdaniModesRaise ==
    EvalEnded =>
        IF fn_type \in {"tsk", "raw-tsk"}
        THEN /\ error = NoError
             /\ ret.kind = "outputs"
             /\ \E i \in 1..Len(trace) : trace[i].ev = "merge"
        ELSE /\ error = TypeError("defuzz_mamdani")
             /\ ret.kind # "outputs"
             /\ \A i \in 1..Len(trace) : trace[i].ev # "merge"

-----------------------------------------------------------------------------
(* C26 *)

\* eval_mamdani has returned a result for the caller's input
MamdaniReturned ==
    /\ fis_ret.op = "eval_mamdani"
    /\ fis_ret.error = NoError

\* what eval_membership returns for the caller's input
Memberships == FIS_eval_membership(fis, fis_x).out

\* function m.k of group g at the sample a, clipped at its membership m.v
ClippedAt(g, m, a) ==
    minimum(FuzzyFunc_call(Groupset[g].fns[m.k], a).value, m.v)

\* the curve returned for the i-th output group: num_points evenly spaced
\* samples from the minimum to the maximum of the group's domain, and at
\* each sample the largest of the clipped values of the group's functions,
\* which is in [0, 1] and not above the largest membership of the group
GroupClipped(i) ==
    LET g == fis_ret.out[i].k
        curve == fis_ret.out[i].v
        memb == DictGet(Memberships, g)
        n == fis_ret.num_points
        lo == Groupset[g].domain[1]
        hi == Groupset[g].domain[2]
    IN /\ Len(curve.domain) = n
       /\ Len(curve.codomain) = n
       /\ curve.domain[1] = lo
       /\ curve.domain[n] = hi
       /\ \A j \in 1..n :
              /\ curve.domain[j] = FAdd(lo, FMul(F(j - 1, n - 1), FSub(hi, lo)))
              /\ \E k \in 1..Len(memb) :
                     curve.codomain[j] = ClippedAt(g, memb[k], curve.domain[j])
              /\ \A k \in 1..Len(memb) :
                     FLe(ClippedAt(g, memb[k], curve.domain[j]), curve.codomain[j])
              /\ FLe(AsFloat(0), curve.codomain[j])
              /\ FLe(curve.codomain[j], AsFloat(1))
              /\ \E k \in 1..Len(memb) : FLe(curve.codomain[j], memb[k].v)

\* C26 (as the specification states it): for each output group the codomain
\* eval_mamdani returns is, at each of the num_points evenly spaced samples
\* of the group's domain (both ends included), the maximum over the group's
\* output functions f of min(f(sample), membership of f), with the
\* memberships eval_membership returns; every codomain value is in [0, 1]
\* and none exceeds the largest membership of the group.
C26_CodomainIsClippedMax ==
    MamdaniReturned => \A i \in 1..Len(fis_ret.out) : GroupClipped(i)

\* what the code does: the same, for the output groups whose total firing
\* strength is not zero; for a group whose total is zero the memberships are
\* nan and so is the codomain at every sample
C26_ClippedMaxWhenFired ==
    MamdaniReturned =>
        \A i \in 1..Len(fis_ret.out) :
            IF TotalOf(RulesOf(fis_ret.out[i].k)) # AsFloat(0)
            THEN GroupClipped(i)
            ELSE \A j \in 1..fis_ret.num_points : isnan(fis_ret.out[i].v.codomain[j])

\* two functions of one group fired with different memberships and the
\* curve takes its value from one at one sample and from the other at
\* another
C26_TwoFunctionsShape ==
    /\ MamdaniReturned
    /\ \E i \in 1..Len(fis_ret.out) :
           LET g == fis_ret.out[i].k
               curve == fis_ret.out[i].v
               memb == DictGet(Memberships, g)
           IN /\ Len(memb) = 2
              /\ GroupClipped(i)
              /\ \E j1, j2 \in 1..fis_ret.num_points :
                     /\ FLt(ClippedAt(g, memb[2], curve.domain[j1]),
                            ClippedAt(g, memb[1], curve.domain[j1]))
                     /\ FLt(ClippedAt(g, memb[1], curve.domain[j2]),
                            ClippedAt(g, memb[2], curve.domain[j2]))

-----------------------------------------------------------------------------
(* C27 *)

\* a function built from a list of membership values, with control points
\* that are all different, was called
CustomCalled ==
    /\ func_ret.kind = "call"
    /\ func_args.template = None
    /\ \A i, j \in 1..Len(func_args.params) :
           i # j => func_args.params[i] # func_args.params[j]

\* the position of the caller's i-th control point among the sorted ones
Rank(i) ==
    1 + Cardinality({j \in 1..Len(func_args.params) :
                        func_args.params[j] < func_args.params[i]})

\* the caller's (x, y) pairs in ascending order of x: the control points and
\* the membership values
AscendingParams ==
    [k \in 1..Len(func_args.params) |->
        func_args.params[CHOOSE i \in 1..Len(func_args.params) : Rank(i) = k]]

AscendingVals ==
    [k \in 1..Len(func_args.params) |->
        func_args.memb_vals[CHOOSE i \in 1..Len(func_args.params) : Rank(i) = k]]

\* C27 (as the specification states it): for a custom function built from
\* control points x_1..x_n in any order and membership values y_1..y_n, the
\* membership returned at each x_i is y_i, and the function returns what the
\* function built from the same pairs in ascending order of x returns.
C27_PairsKeptTogether ==
    CustomCalled =>
        /\ \A i \in 1..Len(func_args.params) :
               func_a = AsFloat(func_args.params[i]) =>
                   func_ret.value = func_args.memb_vals[i]
        /\ LET ascending == FuzzyFuncGeneric("f", Ints(AscendingParams), AscendingVals)
           IN ascending.error = NoError /\
              func_ret.value = FuzzyFunc_call(ascending, func_a).value

\* what the code does: the control points are sorted and the membership
\* values are left where they were, so the membership returned at the k-th
\* smallest control point is the k-th value of the caller's list
C27_ValuesStayInPlace ==
    CustomCalled =>
        \A k \in 1..Len(func.params) :
            func_a = func.params[k] => func_ret.value = func_args.memb_vals[k]

-----------------------------------------------------------------------------
(* C28 *)

\* the words of the rule texts, in lower case
LowerCaseWords ==
    Keywords \cup {"x", "y", "z", "q", "lo", "hi", "k"}

\* the text in lower case that the caller's text differs from in letter
\* case only
LowerCaseText ==
    [i \in 1..Len(rule_text) |->
        CHOOSE l \in LowerCaseWords : rule_text[i] \in {l, Upper(l)}]

\* the names stored in the rule
StoredNames ==
    {rule.antecedents[i].group_name : i \in 1..Len(rule.antecedents)}
    \cup {rule.antecedents[i].fn_name : i \in 1..Len(rule.antecedents)}
    \cup {rule.consequent[i].group_name : i \in 1..Len(rule.consequent)}
    \cup {rule.consequent[i].fn_name : i \in 1..Len(rule.consequent)}

\* C28: the rule read from a text is the rule read from the text that
\* differs from it in letter case only and is all in lower case, the same
\* antecedents and the same consequent, whether the other spelling is in a
\* keyword or in a group or function name; hence two texts that differ in
\* letter case only are read as the same rule, and the names stored are
\* words of the text in lower case (a clause that has no group word, in a
\* text outside the grammar, stores None for it).
C28_CaseInsensitive ==
    rule_ret.kind # None =>
        /\ rule.antecedents = _read_rule(LowerCaseText).antecedents
        /\ rule.consequent = _read_rule(LowerCaseText).consequent
        /\ StoredNames \ {None} \subseteq
               {LowerCaseText[i] : i \in 1..Len(rule_text)}

\* a rule was read from a text with a keyword and both names of its first
\* clause in another letter case, and the names stored are "x" and "lo"
C28_Witness ==
    /\ rule_ret.kind # None
    /\ rule_text[1] = "IF" /\ rule_text[2] = "X" /\ rule_text[4] = "Lo"
    /\ Len(rule.antecedents) >= 1
    /\ rule.antecedents[1].group_name = "x"
    /\ rule.antecedents[1].fn_name = "lo"
    /\ rule.consequent # <<>>

-----------------------------------------------------------------------------
(* C29 *)

\* the nodes of the tree: the roots and the nodes below them
TreeIds == RootIds \cup UNION {Desc(r) : r \in RootIds}

\* C29: after any sequence of inserts of roots and of branches, ended or not
\* by a failed one (which by C2 changes nothing, so that a sequence with
\* failed inserts in it passes through the same networks), node_names is the set of the names of the nodes of the tree,
\* input_names is the set of the pairs (node name, group) for the groups in
\* the input_names of that node's ruleset, output_names the same for the
\* output_names, and network[name] is the node of that name for every name
\* in node_names.
C29_RegistriesAgreeWithTree ==
    /\ node_names = {nodes[i].name : i \in TreeIds}
    /\ input_names =
           UNION {{<<nodes[i].name, g>> : g \in Ruleset(Net, i).input_names} :
                     i \in TreeIds}
    /\ output_names =
           UNION {{<<nodes[i].name, g>> : g \in Ruleset(Net, i).output_names} :
                     i \in TreeIds}
    /\ \A name \in node_names :
           /\ GetItem(Net, name) \in TreeIds
           /\ nodes[GetItem(Net, name)].name = name

\* a failed insert was the last operation on a network with a node two
\* levels below a root that the subscript finds and that has a pair in each
\* registry
C29_Witness ==
    /\ call.op = "insert"
    /\ error.type = "KeyError"
    /\ \E r \in RootIds : \E b \in BranchIds(r) : \E c \in BranchIds(b) :
           /\ GetItem(Net, nodes[c].name) = c
           /\ \E g \in Groups : <<nodes[c].name, g>> \in input_names
           /\ \E g \in Groups : <<nodes[c].name, g>> \in output_names

-----------------------------------------------------------------------------
(* C30 *)

\* an evaluation call has returned
Returned ==
    /\ ret.kind = "outputs"
    /\ fn_type # None

\* C30: within one evaluation call no node's engine is called twice, and
\* when the call returns every node of the network has had its engine called
\* exactly once; the results merged into the running inputs are those of the
\* nodes that are no roots, one merge for each, so that the running inputs
\* are at every moment the caller's inputs overlaid with these merges only;
\* each root's result is in the returned collection and in no later root's
\* inputs.
C30_EachNodeOnceRootsNotMerged ==
    /\ \A id \in NodeIds :
           /\ Cardinality(EvalAt(id)) <= 1
           /\ Cardinality(MergeAt(id)) <= (IF id \in RootIds THEN 0 ELSE 1)
    /\ pc = "eval" => all_inputs = InputsAt(Len(trace) + 1)
    /\ Returned =>
           /\ all_inputs = InputsAt(Len(trace) + 1)
           /\ \A id \in NodeIds :
                  /\ Cardinality(EvalAt(id)) = 1
                  /\ \A i \in EvalAt(id) : trace[i].ev = "eval"
                  /\ Cardinality(MergeAt(id)) = (IF id \in RootIds THEN 0 ELSE 1)
                  /\ nodes[id].name \in DOMAIN all_outputs
           /\ \A r \in RootIds : nodes[r].name \in DOMAIN ret.out

\* an evaluation of a network with two roots and a branch returned; the
\* first root writes a group that the second root reads, and the second root
\* read the value the caller supplied for it
C30_Witness ==
    /\ Returned
    /\ Len(roots) = 2
    /\ \E id \in NodeIds : BranchIds(id) # {}
    /\ \E g \in Ruleset(Net, roots[1].v).output_names
                  \cap Ruleset(Net, roots[2].v).input_names :
           /\ g \in DOMAIN inputs
           /\ WritesBefore(Len(trace) + 1, g) = {}
           /\ \A i \in EvalAt(roots[2].v) : trace[i].vals[g] = inputs[g]
           /\ ret.out[nodes[roots[1].v].name].vals[g] # inputs[g]

====
